---- MODULE Spec2Model ----
(***************************************************************************)
(* The embedding-augmented store of asuka-core: the SQLite vector store    *)
(* (stores/sqlite.rs) and the KnowledgeBase orchestrator                   *)
(* (knowledge/store.rs).                                                   *)
(*                                                                         *)
(* The database is one record `db` whose fields are the tables.  Every     *)
(* closure handed to conn.call runs to completion on the connection's      *)
(* thread, so one conn.call is one step; an await of the embedding         *)
(* provider or of a further conn.call is a step boundary.                  *)
(*                                                                         *)
(* Numbers.  An f64 component is a natural 0..MaxVal counted in half-ulps  *)
(* of the f32 grid: the even values are exactly representable in single    *)
(* precision, the odd ones are halfway between two neighbours.  An f32 is  *)
(* the index m of its grid point (its value is 2*m half-ulps), and its     *)
(* four little-endian bytes are the base-256 digits of m.                  *)
(***************************************************************************)
EXTENDS Integers, Sequences, FiniteSets, TLC

(* ---------------------------- bounds ----------------------------------- *)
\* Dimension of the vec0 column.  The schema says float[1536]; the model
\* keeps the dimension check and scales the number down.
Dim == 1
\* f64 components range over 0..MaxVal half-ulps.
MaxVal == 2
\* Most embeddings one DocumentEmbeddings carries.
MaxEmb == 2
\* Most documents in one add_documents batch.
MaxBatch == 2
\* Cap on the AUTOINCREMENT counter of documents.
MaxRowId == 3
\* Largest n handed to top_n / top_n_ids.
MaxK == 2

Tasks == {"t1"}
DocIds == {"d1", "d2"}
Contents == {"a", "b"}

Min(a, b) == IF a <= b THEN a ELSE b

(* ------------------------- vector codec -------------------------------- *)
F64 == 0..MaxVal
\* A vector the provider or a caller can hand in: the right dimension, or
\* one component too many.
GoodVecs == [1..Dim -> F64]
BadVecs == {[i \in 1..(Dim + 1) |-> 0]}
InVecs == GoodVecs \cup BadVecs

\* The largest finite f32, as a grid index (f32::MAX scaled down).  Its
\* mantissa is odd, as that of f32::MAX is.
F32Max == 3
\* f32::INFINITY: the grid index after the last finite one.
F32Inf == F32Max + 1
\* The largest finite f64 of the model, and f64::INFINITY.
F64Max == 2 * F32Inf + 2
F64Inf == F64Max + 1

\* `*x as f32`: round to nearest, ties to the even mantissa; a value that
\* rounds past f32::MAX becomes infinity.  The result is the grid index.
AsF32(x) ==
    LET m == IF x % 2 = 0 THEN x \div 2
             ELSE IF ((x - 1) \div 2) % 2 = 0 THEN (x - 1) \div 2 ELSE (x + 1) \div 2
    IN  IF m > F32Max THEN F32Inf ELSE m
\* `f32 as f64`: exact widening; infinity stays infinity.
AsF64(m) == IF m = F32Inf THEN F64Inf ELSE 2 * m

serialize_embedding(vec) == [i \in 1..Len(vec) |-> AsF32(vec[i])]

\* The bytes of one f32 in the opposite order, most significant first.
BeBytes(m) ==
    << (m \div 16777216) % 256, (m \div 65536) % 256, (m \div 256) % 256, m % 256 >>
\* The four little-endian bytes of one f32.
LeBytes(m) ==
    << m % 256, (m \div 256) % 256, (m \div 65536) % 256, (m \div 16777216) % 256 >>
FromLeBytes(b) == b[1] + 256 * b[2] + 65536 * b[3] + 16777216 * b[4]

\* vec.as_slice().as_bytes().to_vec()
as_bytes(fs) == [j \in 1..(4 * Len(fs)) |-> LeBytes(fs[((j - 1) \div 4) + 1])[((j - 1) % 4) + 1]]
Encode(vec) == as_bytes(serialize_embedding(vec))

\* bytes.chunks(4).map(|c| f32::from_le_bytes(c.try_into().unwrap()) as f64)
\* (only applied to blobs whose length is a multiple of 4 here: vec0 accepts
\* no other blob)
Decode(blob) ==
    [i \in 1..(Len(blob) \div 4) |->
        AsF64(FromLeBytes(SubSeq(blob, 4 * (i - 1) + 1, 4 * i)))]

\* bytes.chunks(n): consecutive slices of n bytes, the last one shorter when
\* the length is no multiple of n.
chunks(bytes, n) ==
    [i \in 1..((Len(bytes) + n - 1) \div n) |->
        SubSeq(bytes, n * (i - 1) + 1, Min(n * i, Len(bytes)))]
\* The decode of get_document_embeddings on any blob: `chunk.try_into()` is
\* an Err for a slice that is not 4 bytes long and `.unwrap()` panics on it.
DecodeBlob(blob) ==
    IF \E i \in 1..Len(chunks(blob, 4)) : Len(chunks(blob, 4)[i]) # 4
    THEN [ret |-> "panic", vec |-> << >>]
    ELSE [ret |-> "ok",
          vec |-> [i \in 1..Len(chunks(blob, 4)) |-> AsF64(FromLeBytes(chunks(blob, 4)[i]))]]

RECURSIVE SumSq(_, _, _)
SumSq(a, b, i) ==
    IF i > Len(a) THEN 0
    ELSE (a[i] - b[i]) * (a[i] - b[i]) + SumSq(a, b, i + 1)
\* vec0's distance between two stored float32 blobs (the square of the L2
\* distance: same order, exact in integers).
Distance(blobA, blobB) == SumSq(Decode(blobA), Decode(blobB), 1)

(* ----------------------------- state ----------------------------------- *)
VARIABLES
    db,      \* the database: which schema created its tables, whether the
             \* engine enforces foreign keys, its clock, the tables documents,
             \* embeddings (vec0), accounts, channels, messages and the
             \* AUTOINCREMENT counters (sqlite_sequence)
    pc,      \* per task: where its current call stands
    op,      \* per task: the call it is in
    docs,    \* per task: the batch of the add it is in
    msg,     \* per task: the message of the create_message it is in
    qry,     \* per task: the search argument (query blob, n) or doc id,
             \* top_n's position in its rows, the arguments of a relational call
    rows,    \* per task: the rows top_n's query returned
    out,     \* per task: the value built up / returned
    ret,     \* per task: "none", "ok" or the error kind returned
    pre,     \* history: the tables when the call started
    txn,     \* history: did the call open a transaction
    latest   \* history: per doc_id, the last committed add

vars == << db, pc, op, docs, msg, qry, rows, out, ret, pre, txn, latest >>

NoQuery == [vec |-> << >>, n |-> 0, id |-> "", cur |-> 0, arg |-> << >>]
NoMsg == [id |-> 0, channel_id |-> 0, account_id |-> 0, content |-> "", role |-> ""]

\* Both SqliteStore::new and KnowledgeBase::new create their tables with
\* CREATE TABLE IF NOT EXISTS: a table keeps the columns of whichever ran
\* first on the database.
Schemas == {"SqliteStore", "KnowledgeBase"}

\* SqliteStore::new: the tables exist and are empty.  Neither `new` sets
\* PRAGMA foreign_keys: enforcement is the default of the SQLite linked in.
EmptyDb ==
    [schema |-> "SqliteStore", fk |-> TRUE, now |-> 0,
     documents |-> {}, embeddings |-> {}, seq |-> 0,
     accounts |-> {},
     channels |-> {}, cseq |-> 0,
     messages |-> {}, mseq |-> 0]

\* The state after construction, for the callers T that share the connection
\* and the databases D they may have opened.
InitOver(T, D) ==
    /\ db \in D
    /\ pc = [t \in T |-> "idle"]
    /\ op = [t \in T |-> "none"]
    /\ docs = [t \in T |-> << >>]
    /\ msg = [t \in T |-> NoMsg]
    /\ qry = [t \in T |-> NoQuery]
    /\ rows = [t \in T |-> << >>]
    /\ out = [t \in T |-> << >>]
    /\ ret = [t \in T |-> "none"]
    /\ pre = [t \in T |-> EmptyDb]
    /\ txn = [t \in T |-> FALSE]
    /\ latest = [d \in DocIds |-> << >>]

Init == InitOver(Tasks, {EmptyDb})

(* ----------------------- the dual-write transaction -------------------- *)
\* INSERT OR REPLACE INTO documents (doc_id, document): doc_id is UNIQUE, so a
\* row with the same doc_id is deleted first; id is AUTOINCREMENT, so the new
\* row gets an id above every id ever handed out.
InsertKeepingOldRow(d, doc_id, document) ==
    LET id == d.seq + 1 IN
    [d EXCEPT
        !.documents = @ \cup {[id |-> id, doc_id |-> doc_id, document |-> document]},
        !.seq = id]
\* The same statement on a documents table whose id is INTEGER PRIMARY KEY
\* without AUTOINCREMENT: the new row gets the largest id in use plus one.
InsertWithoutAutoincrement(d, doc_id, document) ==
    LET kept == {r \in d.documents : r.doc_id # doc_id}
        top == IF kept = {} THEN 0 ELSE CHOOSE n \in {r.id : r \in kept} : \A r \in kept : r.id <= n
    IN  [d EXCEPT
            !.documents = kept \cup {[id |-> top + 1, doc_id |-> doc_id, document |-> document]},
            !.seq = top + 1]
InsertOrReplaceDocument(d, doc_id, document) ==
    LET id == d.seq + 1 IN
    [d EXCEPT
        !.documents = {r \in @ : r.doc_id # doc_id}
                        \cup {[id |-> id, doc_id |-> doc_id, document |-> document]},
        !.seq = id]

\* tx.last_insert_rowid() right after the insert above.
last_insert_rowid(d) == d.seq

\* A vector table that takes a blob of any length.
VecInsertAnyDimension(d, rowid, blob) ==
    IF \E e \in d.embeddings : e.rowid = rowid THEN "unique" ELSE ""
\* INSERT INTO embeddings (rowid, embedding): vec0 rejects a blob that is not
\* Dim float32 values and a rowid that is already present.
VecInsertError(d, rowid, blob) ==
    IF Len(blob) # 4 * Dim THEN "dimension"
    ELSE IF \E e \in d.embeddings : e.rowid = rowid THEN "unique"
    ELSE ""

\* The statements of the transaction are numbered 1, 2, ... in the order they
\* run; `fault` is the number of the statement at which the engine itself
\* fails (0: the engine does not fail).  s = [db, err, n]: the tables inside
\* the transaction, the first error, the statements run so far.
RECURSIVE StoreEmbeddings(_, _, _, _, _)
StoreEmbeddings(s, rowid, embs, j, fault) ==
    IF s.err # "" \/ j > Len(embs) THEN s
    ELSE
        LET blob == Encode(embs[j])
            e == IF s.n + 1 = fault THEN "engine" ELSE VecInsertError(s.db, rowid, blob)
            s1 == IF e # ""
                  THEN [s EXCEPT !.err = e, !.n = @ + 1]
                  ELSE [s EXCEPT
                          !.db.embeddings = @ \cup {[rowid |-> rowid, embedding |-> blob]},
                          !.n = @ + 1]
        IN StoreEmbeddings(s1, rowid, embs, j + 1, fault)

RECURSIVE StoreDocuments(_, _, _, _)
StoreDocuments(s, documents, i, fault) ==
    IF s.err # "" \/ i > Len(documents) THEN s
    ELSE
        LET doc == documents[i]
            s1 == IF s.n + 1 = fault
                  THEN [s EXCEPT !.err = "engine", !.n = @ + 1]
                  ELSE [s EXCEPT
                          !.db = InsertOrReplaceDocument(@, doc.id, doc.document),
                          !.n = @ + 1]
            doc_id == last_insert_rowid(s1.db)
            s2 == StoreEmbeddings(s1, doc_id, doc.embeddings, 1, fault)
        IN StoreDocuments(s2, documents, i + 1, fault)

\* Dropping a rusqlite Transaction that was not committed rolls it back.
RollbackKeepsWrites(before, inTx) == inTx
Rollback(before, inTx) == before

\* The closure of add_documents: transaction, the loop, commit.
AddDocumentsTxn(d, documents, fault) ==
    LET s == StoreDocuments([db |-> d, err |-> "", n |-> 0], documents, 1, fault)
        c == IF s.err = "" /\ s.n + 1 = fault THEN [s EXCEPT !.err = "engine"] ELSE s
    IN IF c.err # ""
       THEN [db |-> Rollback(d, c.db), err |-> c.err]
       ELSE [db |-> c.db, err |-> ""]

RECURSIVE NStmts(_, _)
NStmts(documents, i) ==
    IF i > Len(documents) THEN 0
    ELSE 1 + Len(documents[i].embeddings) + NStmts(documents, i + 1)

\* history: the adds of a committed batch, the later entry for a doc_id last
RECURSIVE Record(_, _, _)
Record(l, documents, i) ==
    IF i > Len(documents) THEN l
    ELSE Record([l EXCEPT ![documents[i].id] =
                    << [document |-> documents[i].document,
                        embeddings |-> documents[i].embeddings] >>],
                documents, i + 1)

(* ------------------------------ inputs --------------------------------- *)
SeqsUpTo(S, n) == UNION {[1..k -> S] : k \in 0..n}
EmbLists == SeqsUpTo(InVecs, MaxEmb)
\* rig's DocumentEmbeddings {id, document, embeddings}
DocumentEmbeddings ==
    [id : DocIds, document : Contents, embeddings : EmbLists]

(* --------------------- SqliteStore::add_documents ---------------------- *)
\* One call of add_documents with the batch `documents`.
AddDocumentsCall(t, documents) ==
    /\ \E fault \in 0..(NStmts(documents, 1) + 1) :
         LET r == AddDocumentsTxn(db, documents, fault) IN
         /\ db' = r.db
         /\ ret' = [ret EXCEPT ![t] = IF r.err = "" THEN "ok" ELSE r.err]
         /\ latest' = IF r.err = "" THEN Record(latest, documents, 1) ELSE latest
         /\ docs' = [docs EXCEPT ![t] = documents]
    /\ pc' = [pc EXCEPT ![t] = "done"]
    /\ op' = [op EXCEPT ![t] = "add_documents"]
    /\ pre' = [pre EXCEPT ![t] = db]
    /\ txn' = [txn EXCEPT ![t] = TRUE]
    /\ UNCHANGED << msg, qry, rows, out >>

add_documents(t) ==
    /\ pc[t] = "idle"
    /\ \E k \in 0..Min(MaxBatch, MaxRowId - db.seq) :
       \E documents \in [1..k -> DocumentEmbeddings] :
          AddDocumentsCall(t, documents)

(* ------------------------- KnowledgeBase adds -------------------------- *)
\* KnowledgeBase's Document and Message, as far as the add reads them.
Documents == [id : DocIds, content : Contents]
Messages ==
    [id : {1}, channel_id : {1}, account_id : {1}, content : Contents, role : {"user"}]

\* document_store.add_rows(embeddings) of rig_sqlite::SqliteVectorStore: one
\* transaction that writes each row and its vectors.
add_rows(d, documents, fault) == AddDocumentsTxn(d, documents, fault)

\* `.build().await?`: the provider's error leaves the function before any
\* call on the connection.
WrittenBeforeEmbedding(d, documents) ==
    AddDocumentsTxn(d, [i \in 1..Len(documents) |->
        [id |-> documents[i].id, document |-> documents[i].content,
         embeddings |-> << >>]], 0).db
OnProviderError(d, documents) == d

\* KnowledgeBase::add_documents up to its first await: EmbeddingsBuilder
\* ...build().await? .  The provider fails, or returns one vector per
\* document (of whatever dimension it likes).
kb_add_documents_embed(t) ==
    /\ pc[t] = "idle"
    /\ \E k \in 0..Min(MaxBatch, MaxRowId - db.seq) :
       \E documents \in [1..k -> Documents] :
         \/ /\ pc' = [pc EXCEPT ![t] = "done"]
            /\ ret' = [ret EXCEPT ![t] = "provider"]
            /\ db' = OnProviderError(db, documents)
            /\ docs' = [docs EXCEPT ![t] =
                  [i \in 1..k |-> [id |-> documents[i].id,
                                   document |-> documents[i].content,
                                   embeddings |-> << >>]]]
         \/ \E vs \in [1..k -> InVecs] :
            /\ pc' = [pc EXCEPT ![t] = "store"]
            /\ ret' = ret
            /\ db' = db
            /\ docs' = [docs EXCEPT ![t] =
                  [i \in 1..k |-> [id |-> documents[i].id,
                                   document |-> documents[i].content,
                                   embeddings |-> << vs[i] >>]]]
    /\ op' = [op EXCEPT ![t] = "kb_add_documents"]
    /\ pre' = [pre EXCEPT ![t] = db]
    /\ UNCHANGED << msg, qry, rows, out, txn, latest >>

\* ... and its second: self.document_store.add_rows(embeddings).await? .
kb_add_documents_store(t) ==
    /\ pc[t] = "store"
    /\ op[t] = "kb_add_documents"
    /\ \E fault \in 0..(NStmts(docs[t], 1) + 1) :
         LET r == add_rows(db, docs[t], fault) IN
         /\ db' = r.db
         /\ ret' = [ret EXCEPT ![t] = IF r.err = "" THEN "ok" ELSE r.err]
         /\ latest' = IF r.err = "" THEN Record(latest, docs[t], 1) ELSE latest
    /\ pc' = [pc EXCEPT ![t] = "done"]
    /\ txn' = [txn EXCEPT ![t] = TRUE]
    /\ UNCHANGED << op, docs, msg, qry, rows, out, pre >>

\* KnowledgeBase::create_message up to its first await.
kb_create_message_embed(t) ==
    /\ pc[t] = "idle"
    /\ \E m \in Messages :
        /\ msg' = [msg EXCEPT ![t] = m]
        /\ \/ /\ pc' = [pc EXCEPT ![t] = "done"]
              /\ ret' = [ret EXCEPT ![t] = "provider"]
              /\ docs' = docs
           \/ \E v \in InVecs :
              /\ pc' = [pc EXCEPT ![t] = "store"]
              /\ ret' = ret
              /\ docs' = [docs EXCEPT ![t] =
                    << [id |-> "", document |-> m.content, embeddings |-> << v >>] >>]
    /\ op' = [op EXCEPT ![t] = "kb_create_message"]
    /\ pre' = [pre EXCEPT ![t] = db]
    /\ UNCHANGED << db, qry, rows, out, txn, latest >>

\* "INSERT INTO channels (...) VALUES (...) ON CONFLICT (id) DO UPDATE SET":
\* the statement ends after SET, so SQLite cannot prepare it.
UpsertPrepares == FALSE

\* The statements of create_message's closure: the upsert, then
\* add_rows_with_txn (writing the vectors under the message's id).
CreateMessageStmts(d, m, embs, fault) ==
    LET s0 == [db |-> d, err |-> "", n |-> 0]
        s1 == IF ~UpsertPrepares THEN [s0 EXCEPT !.err = "syntax", !.n = 1]
              ELSE IF fault = 1 THEN [s0 EXCEPT !.err = "engine", !.n = 1]
              ELSE [s0 EXCEPT
                      !.db.channels = {c \in @ : c.id # m.id}
                                        \cup {[id |-> m.id, channel_id |-> m.channel_id]},
                      !.n = 1]
    IN StoreEmbeddings(s1, m.id, embs, 1, fault)

\* The closure of create_message: transaction, the statements, commit.
CreateMessageTxn(d, m, embs, fault) ==
    LET s2 == CreateMessageStmts(d, m, embs, fault)
        c == IF s2.err = "" /\ s2.n + 1 = fault THEN [s2 EXCEPT !.err = "engine"] ELSE s2
    IN IF c.err # ""
       THEN [db |-> Rollback(d, c.db), err |-> c.err]
       ELSE [db |-> c.db, err |-> ""]

kb_create_message_store(t) ==
    /\ pc[t] = "store"
    /\ op[t] = "kb_create_message"
    /\ \E fault \in 0..3 :
         LET r == CreateMessageTxn(db, msg[t], docs[t][1].embeddings, fault) IN
         /\ db' = r.db
         /\ ret' = [ret EXCEPT ![t] = IF r.err = "" THEN "ok" ELSE r.err]
    /\ pc' = [pc EXCEPT ![t] = "done"]
    /\ txn' = [txn EXCEPT ![t] = TRUE]
    /\ UNCHANGED << op, docs, msg, qry, rows, out, pre, latest >>

(* ------------------------------ reads ---------------------------------- *)
\* SELECT document FROM documents WHERE doc_id = ?1, .optional(): the
\* caller's T is serde_json::Value, which every stored document parses to.
GetDocument(d, id) ==
    IF \E r \in d.documents : r.doc_id = id
    THEN << (CHOOSE r \in d.documents : r.doc_id = id).document >>
    ELSE << >>

get_document(t) ==
    /\ pc[t] = "idle"
    /\ \E id \in DocIds :
        /\ qry' = [qry EXCEPT ![t] = [NoQuery EXCEPT !.id = id]]
        /\ out' = [out EXCEPT ![t] = GetDocument(db, id)]
    /\ pc' = [pc EXCEPT ![t] = "done"]
    /\ op' = [op EXCEPT ![t] = "get_document"]
    /\ ret' = [ret EXCEPT ![t] = "ok"]
    /\ pre' = [pre EXCEPT ![t] = db]
    /\ UNCHANGED << db, docs, msg, rows, txn, latest >>

\* All orders in which a query without ORDER BY may hand out a set of rows.
Orders(S) ==
    {s \in [1..Cardinality(S) -> S] : \A i, j \in 1..Cardinality(S) : s[i] = s[j] => i = j}

\* SELECT e.embedding FROM embeddings e JOIN documents d ON e.rowid = d.id
\* WHERE d.doc_id = ?1
JoinedEmbeddingsAll(d, id) ==
    {e \in d.embeddings : \E r \in d.documents : r.doc_id = id}
JoinedEmbeddings(d, id) ==
    {e \in d.embeddings : \E r \in d.documents : r.doc_id = id /\ r.id = e.rowid}

\* get_document_embeddings, first conn.call: self.get_document(&id).await?
get_document_embeddings_doc(t) ==
    /\ pc[t] = "idle"
    /\ \E id \in DocIds :
        /\ qry' = [qry EXCEPT ![t] = [NoQuery EXCEPT !.id = id]]
        /\ IF GetDocument(db, id) = << >>
           THEN /\ pc' = [pc EXCEPT ![t] = "done"]
                /\ ret' = [ret EXCEPT ![t] = "ok"]
                /\ out' = out
           ELSE /\ pc' = [pc EXCEPT ![t] = "embq"]
                /\ ret' = ret
                /\ out' = [out EXCEPT ![t] =
                      << [id |-> id, document |-> GetDocument(db, id)[1],
                          embeddings |-> << >>] >>]
    /\ op' = [op EXCEPT ![t] = "get_document_embeddings"]
    /\ pre' = [pre EXCEPT ![t] = db]
    /\ UNCHANGED << db, docs, msg, rows, txn, latest >>

\* ... second conn.call: the join, each blob decoded.
get_document_embeddings_query(t) ==
    /\ pc[t] = "embq"
    /\ \E s \in Orders(JoinedEmbeddings(db, qry[t].id)) :
        out' = [out EXCEPT ![t][1].embeddings =
                    [i \in 1..Len(s) |-> Decode(s[i].embedding)]]
    /\ pc' = [pc EXCEPT ![t] = "done"]
    /\ ret' = [ret EXCEPT ![t] = "ok"]
    /\ UNCHANGED << db, op, docs, msg, qry, rows, pre, txn, latest >>

(* ------------------------------ search --------------------------------- *)
\* vec0's KNN (embedding MATCH ?1 AND k = ?2): the k rows of the embeddings
\* table nearest to the query, every row of the table being a candidate.
\* Which of several equally distant rows makes the cut, and their order, is
\* the index's business: every choice is a possible result.
KnnSets(E, q, k) ==
    {S \in SUBSET E :
        /\ Cardinality(S) = Min(k, Cardinality(E))
        /\ \A a \in S : \A b \in E \ S :
              Distance(a.embedding, q) <= Distance(b.embedding, q)}

\* ORDER BY e.distance
ByDistanceUnordered(S, q) == Orders(S)
ByDistance(S, q) ==
    {s \in Orders(S) :
        \A i, j \in 1..Len(s) :
            i < j => Distance(s[i].embedding, q) <= Distance(s[j].embedding, q)}

Knn(E, q, k) == UNION {ByDistance(S, q) : S \in KnnSets(E, q, k)}

\* JOIN documents d ON e.rowid = d.id, SELECT d.doc_id, e.distance: a hit
\* without a documents row of its rowid yields no row.
Owner(d, e) == {r \in d.documents : r.id = e.rowid}
RECURSIVE JoinDocuments(_, _, _)
JoinDocuments(d, hits, q) ==
    IF hits = << >> THEN << >>
    ELSE LET e == Head(hits)
             rest == JoinDocuments(d, Tail(hits), q)
         IN IF Owner(d, e) = {} THEN rest
            ELSE << [doc_id |-> (CHOOSE r \in Owner(d, e) : TRUE).doc_id,
                     distance |-> Distance(e.embedding, q)] >> \o rest

\* The rows the SELECT of top_n / top_n_ids can return.
KnnRows(d, q, n) == {JoinDocuments(d, hits, q) : hits \in Knn(d.embeddings, q, n)}

\* top_n up to its first await: embed_document(query).await?, then
\* serialize_embedding.
top_n_embed(t) ==
    /\ pc[t] = "idle"
    /\ \E n \in 0..MaxK :
        \/ /\ pc' = [pc EXCEPT ![t] = "done"]
           /\ ret' = [ret EXCEPT ![t] = "provider"]
           /\ qry' = [qry EXCEPT ![t] = [NoQuery EXCEPT !.n = n]]
        \/ \E v \in InVecs :
           /\ pc' = [pc EXCEPT ![t] = "query"]
           /\ ret' = ret
           /\ qry' = [qry EXCEPT ![t] = [NoQuery EXCEPT !.n = n, !.vec = Encode(v)]]
    /\ op' = [op EXCEPT ![t] = "top_n"]
    /\ pre' = [pre EXCEPT ![t] = db]
    /\ UNCHANGED << db, docs, msg, rows, out, txn, latest >>

\* ... the conn.call with the KNN query (vec0 refuses a query vector of
\* another dimension) ...
top_n_query(t) ==
    /\ pc[t] = "query"
    /\ op[t] = "top_n"
    /\ IF Len(qry[t].vec) # 4 * Dim
       THEN /\ pc' = [pc EXCEPT ![t] = "done"]
            /\ ret' = [ret EXCEPT ![t] = "dimension"]
            /\ rows' = rows
            /\ qry' = qry
       ELSE /\ \E r \in KnnRows(db, qry[t].vec, qry[t].n) :
                 rows' = [rows EXCEPT ![t] = r]
            /\ pc' = [pc EXCEPT ![t] = "fetch"]
            /\ ret' = ret
            /\ qry' = [qry EXCEPT ![t].cur = 1]
    /\ UNCHANGED << db, op, docs, msg, out, pre, txn, latest >>

\* ... one turn of `for (id, distance) in rows`: get_document(&id).await?,
\* pushed if Some ...
PushFront(acc, row, doc) ==
    IF doc = << >> THEN acc
    ELSE << [distance |-> row.distance, id |-> row.doc_id, doc |-> doc[1]] >> \o acc
Push(acc, row, doc) ==
    IF doc = << >> THEN acc
    ELSE Append(acc, [distance |-> row.distance, id |-> row.doc_id, doc |-> doc[1]])

top_n_fetch(t) ==
    /\ pc[t] = "fetch"
    /\ qry[t].cur <= Len(rows[t])
    /\ out' = [out EXCEPT ![t] =
                  Push(@, rows[t][qry[t].cur], GetDocument(db, rows[t][qry[t].cur].doc_id))]
    /\ qry' = [qry EXCEPT ![t].cur = @ + 1]
    /\ UNCHANGED << db, pc, op, docs, msg, rows, ret, pre, txn, latest >>

\* ... Ok(top_n).
top_n_return(t) ==
    /\ pc[t] = "fetch"
    /\ qry[t].cur > Len(rows[t])
    /\ pc' = [pc EXCEPT ![t] = "done"]
    /\ ret' = [ret EXCEPT ![t] = "ok"]
    /\ UNCHANGED << db, op, docs, msg, qry, rows, out, pre, txn, latest >>

\* top_n_ids: the same embed ...
top_n_ids_embed(t) ==
    /\ pc[t] = "idle"
    /\ \E n \in 0..MaxK :
        \/ /\ pc' = [pc EXCEPT ![t] = "done"]
           /\ ret' = [ret EXCEPT ![t] = "provider"]
           /\ qry' = [qry EXCEPT ![t] = [NoQuery EXCEPT !.n = n]]
        \/ \E v \in InVecs :
           /\ pc' = [pc EXCEPT ![t] = "query"]
           /\ ret' = ret
           /\ qry' = [qry EXCEPT ![t] = [NoQuery EXCEPT !.n = n, !.vec = Encode(v)]]
    /\ op' = [op EXCEPT ![t] = "top_n_ids"]
    /\ pre' = [pre EXCEPT ![t] = db]
    /\ UNCHANGED << db, docs, msg, rows, out, txn, latest >>

\* ... and the same query, returned as (distance, doc_id).
top_n_ids_query(t) ==
    /\ pc[t] = "query"
    /\ op[t] = "top_n_ids"
    /\ IF Len(qry[t].vec) # 4 * Dim
       THEN /\ ret' = [ret EXCEPT ![t] = "dimension"]
            /\ out' = out
       ELSE /\ \E r \in KnnRows(db, qry[t].vec, qry[t].n) :
                 out' = [out EXCEPT ![t] =
                     [i \in 1..Len(r) |-> [distance |-> r[i].distance, id |-> r[i].doc_id]]]
            /\ ret' = [ret EXCEPT ![t] = "ok"]
    /\ pc' = [pc EXCEPT ![t] = "done"]
    /\ UNCHANGED << db, op, docs, msg, qry, rows, pre, txn, latest >>

(* ------------------- accounts, channels, messages ---------------------- *)
\* The clock of CURRENT_TIMESTAMP runs over 0..MaxTime seconds.
MaxTime == 1
\* Cap on the AUTOINCREMENT counter of channels.
MaxChannelSeq == 3
\* Cap on the number of messages.
MaxMsgs == 2

Names == {"alice", "bob"}
AccountIds == {1, 2}
Sources == {"discord", "telegram"}
SourceIds == {"x1", "x2"}
ChannelIds == {"c1", "c2"}
ChannelTypes == {"discord"}
\* Option<String>: None is << >>, Some(n) is << n >>.
ChannelNames == {<< >>, << "n1" >>, << "n2" >>}
\* Option<i64>: no reply, or a reply to message 1.
ReplyTos == {<< >>, << 1 >>}

\* The columns of the tables, by the `new` that created them, their UNIQUE /
\* PRIMARY KEY columns, and the columns an INSERT has to supply (NOT NULL
\* without DEFAULT, other than the INTEGER PRIMARY KEY).
AccountsColumns(schema) ==
    IF schema = "SqliteStore"
    THEN {"id", "name", "source", "created_at", "updated_at"}
    ELSE {"id", "name", "source_id", "source", "created_at", "updated_at"}
AccountsUnique(schema) ==
    IF schema = "SqliteStore" THEN {"id", "name"} ELSE {"id", "source_id"}
ChannelsColumns(schema) ==
    {"id", "channel_id", "channel_type", "name", "created_at", "updated_at"}
        \cup (IF schema = "SqliteStore" THEN {} ELSE {"source"})
ChannelsUnique(schema) == {"id", "channel_id"}
ChannelsRequired(schema) ==
    {"channel_id", "channel_type"} \cup (IF schema = "SqliteStore" THEN {} ELSE {"source"})
MessagesColumns(schema) ==
    {"id", "channel_id", "account_id", "content", "role", "reply_to_id", "created_at"}

\* sqlite3_prepare of an INSERT ... ON CONFLICT(target): every named column
\* has to exist and the conflict target has to be a UNIQUE or PRIMARY KEY
\* column.
PreparesUpsert(cols, tableCols, target, unique) ==
    cols \subseteq tableCols /\ target \in unique
\* sqlite3_prepare of a SELECT: every named column has to exist.
PreparesSelect(cols, tableCols) == cols \subseteq tableCols

Failed(d, e) == [db |-> d, err |-> e, id |-> 0]

\* SqliteStore::create_user: INSERT INTO accounts (id, name, source, ...)
\* ON CONFLICT(name) DO UPDATE SET updated_at = CURRENT_TIMESTAMP RETURNING id.
\* The conflict target is looked at first, then the primary key.
CreateUser(d, name, source, account_id) ==
    IF ~PreparesUpsert({"id", "name", "source", "created_at", "updated_at"},
                       AccountsColumns(d.schema), "name", AccountsUnique(d.schema))
    THEN Failed(d, "prepare")
    ELSE IF \E r \in d.accounts : r.name = name
    THEN LET r == CHOOSE r \in d.accounts : r.name = name IN
         [db |-> [d EXCEPT !.accounts = (@ \ {r}) \cup {[r EXCEPT !.updated_at = d.now]}],
          err |-> "", id |-> r.id]
    ELSE IF \E r \in d.accounts : r.id = account_id
    THEN Failed(d, "unique")
    ELSE [db |-> [d EXCEPT !.accounts = @ \cup
                    {[id |-> account_id, name |-> name, source |-> source,
                      created_at |-> d.now, updated_at |-> d.now]}],
          err |-> "", id |-> account_id]

\* KnowledgeBase::create_user: INSERT INTO accounts (name, source, created_at,
\* updated_at, source_id) ... ON CONFLICT(name) DO UPDATE SET updated_at =
\* CURRENT_TIMESTAMP RETURNING id.
KbCreateUser(d, name, source, source_id) ==
    IF ~PreparesUpsert({"name", "source", "created_at", "updated_at", "source_id"},
                       AccountsColumns(d.schema), "name", AccountsUnique(d.schema))
    THEN Failed(d, "prepare")
    ELSE IF \E r \in d.accounts : r.name = name
    THEN LET r == CHOOSE r \in d.accounts : r.name = name IN
         [db |-> [d EXCEPT !.accounts = (@ \ {r}) \cup {[r EXCEPT !.updated_at = d.now]}],
          err |-> "", id |-> r.id]
    ELSE IF \E r \in d.accounts : r.source_id = source_id
    THEN Failed(d, "unique")
    ELSE LET id == Cardinality(d.accounts) + 1 IN
         [db |-> [d EXCEPT !.accounts = @ \cup
                    {[id |-> id, name |-> name, source |-> source, source_id |-> source_id,
                      created_at |-> d.now, updated_at |-> d.now]}],
          err |-> "", id |-> id]

\* create_channel (the same statement in SqliteStore and KnowledgeBase):
\* INSERT INTO channels (channel_id, channel_type, name, created_at,
\* updated_at) ... ON CONFLICT(channel_id) DO UPDATE SET name = COALESCE(?3,
\* name), updated_at = CURRENT_TIMESTAMP RETURNING id.  The AUTOINCREMENT
\* counter moves on also when the row is updated instead of inserted.
CoalesceOverwrites(new, old) == new
Coalesce(new, old) == IF new # << >> THEN new ELSE old
CreateChannel(d, channel_id, channel_type, name) ==
    LET cols == {"channel_id", "channel_type", "name", "created_at", "updated_at"} IN
    IF ~PreparesUpsert(cols, ChannelsColumns(d.schema), "channel_id",
                       ChannelsUnique(d.schema))
    THEN Failed(d, "prepare")
    ELSE IF ~(ChannelsRequired(d.schema) \subseteq cols)
    THEN Failed(d, "notnull")
    ELSE IF \E r \in d.channels : r.channel_id = channel_id
    THEN LET r == CHOOSE r \in d.channels : r.channel_id = channel_id IN
         [db |-> [d EXCEPT
                    !.channels = (@ \ {r}) \cup
                        {[r EXCEPT !.name = Coalesce(name, r.name), !.updated_at = d.now]},
                    !.cseq = @ + 1],
          err |-> "", id |-> r.id]
    ELSE LET id == d.cseq + 1 IN
         [db |-> [d EXCEPT
                    !.channels = @ \cup
                        {[id |-> id, channel_id |-> channel_id,
                          channel_type |-> channel_type, name |-> name,
                          created_at |-> d.now, updated_at |-> d.now]},
                    !.cseq = id],
          err |-> "", id |-> id]

\* INSERT INTO messages (channel_id, account_id, content, role, reply_to_id)
\* VALUES (...) RETURNING id: a plain insert under a new id; the two FOREIGN
\* KEY clauses are checked when the engine enforces foreign keys.
InsertMessageReplacing(d, channel_id, account_id, content, role, reply_to_id) ==
    IF d.fk /\ (  (\A c \in d.channels : c.id # channel_id)
               \/ (\A a \in d.accounts : a.id # account_id))
    THEN Failed(d, "foreign_key")
    ELSE LET id == d.mseq + 1 IN
         [db |-> [d EXCEPT
                    !.messages = {m \in @ : m.channel_id # channel_id} \cup
                        {[id |-> id, channel_id |-> channel_id, account_id |-> account_id,
                          content |-> content, role |-> role,
                          reply_to_id |-> reply_to_id, created_at |-> d.now]},
                    !.mseq = id],
          err |-> "", id |-> id]
InsertMessage(d, channel_id, account_id, content, role, reply_to_id) ==
    IF d.fk /\ (  (\A c \in d.channels : c.id # channel_id)
               \/ (\A a \in d.accounts : a.id # account_id))
    THEN Failed(d, "foreign_key")
    ELSE LET id == d.mseq + 1 IN
         [db |-> [d EXCEPT
                    !.messages = @ \cup
                        {[id |-> id, channel_id |-> channel_id, account_id |-> account_id,
                          content |-> content, role |-> role,
                          reply_to_id |-> reply_to_id, created_at |-> d.now]},
                    !.mseq = id],
          err |-> "", id |-> id]

\* The closure of SqliteStore::create_message: transaction, the insert,
\* commit.
SqliteCreateMessageTxn(d, channel_id, account_id, reply_to_id, role, content) ==
    LET r == InsertMessage(d, channel_id, account_id, content, role, reply_to_id) IN
    IF r.err # "" THEN [r EXCEPT !.db = Rollback(d, r.db)] ELSE r

\* A relational call of one statement: its arguments, its outcome.
Call(t, name, arg, r) ==
    /\ pc[t] = "idle"
    /\ pc' = [pc EXCEPT ![t] = "done"]
    /\ op' = [op EXCEPT ![t] = name]
    /\ qry' = [qry EXCEPT ![t] = [NoQuery EXCEPT !.arg = arg]]
    /\ db' = r.db
    /\ out' = [out EXCEPT ![t] = IF r.err = "" THEN << r.id >> ELSE << >>]
    /\ ret' = [ret EXCEPT ![t] = IF r.err = "" THEN "ok" ELSE r.err]
    /\ pre' = [pre EXCEPT ![t] = db]
    /\ UNCHANGED << docs, msg, rows, latest >>

create_user(t) ==
    \E name \in Names, source \in Sources, account_id \in AccountIds :
        /\ Call(t, "create_user", << name, source, account_id >>,
                CreateUser(db, name, source, account_id))
        /\ UNCHANGED txn

kb_create_user(t) ==
    \E name \in Names, source \in Sources, source_id \in SourceIds :
        /\ Call(t, "kb_create_user", << name, source, source_id >>,
                KbCreateUser(db, name, source, source_id))
        /\ UNCHANGED txn

create_channel(t) ==
    /\ db.cseq < MaxChannelSeq
    /\ \E channel_id \in ChannelIds, channel_type \in ChannelTypes, name \in ChannelNames :
        /\ Call(t, "create_channel", << channel_id, channel_type, name >>,
                CreateChannel(db, channel_id, channel_type, name))
        /\ UNCHANGED txn

kb_create_channel(t) ==
    /\ db.cseq < MaxChannelSeq
    /\ \E channel_id \in ChannelIds, channel_type \in ChannelTypes, name \in ChannelNames :
        /\ Call(t, "kb_create_channel", << channel_id, channel_type, name >>,
                CreateChannel(db, channel_id, channel_type, name))
        /\ UNCHANGED txn

create_message(t) ==
    /\ db.mseq < MaxMsgs
    /\ \E channel_id \in 1..2, account_id \in AccountIds, reply_to_id \in ReplyTos :
        /\ Call(t, "create_message", << channel_id, account_id, reply_to_id, "user", "a" >>,
                SqliteCreateMessageTxn(db, channel_id, account_id, reply_to_id, "user", "a"))
        /\ txn' = [txn EXCEPT ![t] = TRUE]

\* CURRENT_TIMESTAMP writes the text "YYYY-MM-DD HH:MM:SS": the seconds of
\* the UTC clock and no zone designator.
CurrentTimestampText(secs) == [secs |-> secs, zone |-> << >>]
\* chrono::NaiveDateTime::parse_from_str(s, "%Y-%m-%d %H:%M:%S").and_utc():
\* accepts exactly the text without a zone and reads it as UTC.
ParseNaiveUtc(text) == IF text.zone = << >> THEN << text.secs >> ELSE << >>
\* str::parse::<chrono::DateTime<Utc>>(): RFC 3339, the zone designator is
\* required.
ParseDateTimeUtc(text) ==
    IF text.zone = << >> THEN << >> ELSE << text.secs - text.zone[1] >>

\* The Message a row closure builds with parse_from_str: Err(InvalidQuery)
\* when the text does not parse.
MessageOfRow(m) ==
    LET c == ParseNaiveUtc(CurrentTimestampText(m.created_at)) IN
    IF c = << >> THEN << >> ELSE << [m EXCEPT !.created_at = c[1]] >>
\* The struct a row closure builds with .parse().unwrap(): the closure panics
\* when the text does not parse.
ParsedOrPanic(r, cols) ==
    IF \E c \in cols : ParseDateTimeUtc(CurrentTimestampText(r[c])) = << >>
    THEN << >>
    ELSE << [c \in DOMAIN r |->
               IF c \in cols THEN ParseDateTimeUtc(CurrentTimestampText(r[c]))[1] ELSE r[c]] >>

\* SELECT ... FROM messages WHERE id = ?1, one row or none.
GetMessage(d, id) ==
    IF \E m \in d.messages : m.id = id
    THEN << CHOOSE m \in d.messages : m.id = id >>
    ELSE << >>

\* A LIMIT that keeps any rows of the channel, not the first of the order.
AnySets(M, limit) ==
    {S \in SUBSET M : Cardinality(S) = Min(limit, Cardinality(M))}
\* SELECT ... FROM messages WHERE channel_id = ?1 ORDER BY created_at DESC
\* LIMIT ?2: the newest `limit` rows of the channel, newest first; rows of
\* the same second come in any order.
RecentSets(M, limit) ==
    {S \in SUBSET M :
        /\ Cardinality(S) = Min(limit, Cardinality(M))
        /\ \A a \in S : \A b \in M \ S : a.created_at >= b.created_at}
ByCreatedDesc(S) ==
    {s \in Orders(S) : \A i, j \in 1..Len(s) : i < j => s[i].created_at >= s[j].created_at}
RecentMessages(d, channel_id, limit) ==
    UNION {ByCreatedDesc(S) :
             S \in RecentSets({m \in d.messages : m.channel_id = channel_id}, limit)}

\* query_map(..., closure).collect::<Result<Vec<_>, _>>()?
RowsParse(rs) == \A i \in 1..Len(rs) : MessageOfRow(rs[i]) # << >>
MessagesOfRows(rs) == [i \in 1..Len(rs) |-> MessageOfRow(rs[i])[1]]

\* A read that takes the rows it returns out of the messages table.
ReadConsuming(t, name, arg, result, err) ==
    /\ pc[t] = "idle"
    /\ pc' = [pc EXCEPT ![t] = "done"]
    /\ op' = [op EXCEPT ![t] = name]
    /\ qry' = [qry EXCEPT ![t] = [NoQuery EXCEPT !.arg = arg]]
    /\ out' = [out EXCEPT ![t] = result]
    /\ ret' = [ret EXCEPT ![t] = IF err = "" THEN "ok" ELSE err]
    /\ pre' = [pre EXCEPT ![t] = db]
    /\ db' = [db EXCEPT !.messages =
                 {m \in @ : \A i \in 1..Len(result) : result[i].id # m.id}]
    /\ UNCHANGED << docs, msg, rows, txn, latest >>
\* A relational read of one statement: its arguments, what it returns.
Read(t, name, arg, result, err) ==
    /\ pc[t] = "idle"
    /\ pc' = [pc EXCEPT ![t] = "done"]
    /\ op' = [op EXCEPT ![t] = name]
    /\ qry' = [qry EXCEPT ![t] = [NoQuery EXCEPT !.arg = arg]]
    /\ out' = [out EXCEPT ![t] = result]
    /\ ret' = [ret EXCEPT ![t] = IF err = "" THEN "ok" ELSE err]
    /\ pre' = [pre EXCEPT ![t] = db]
    /\ UNCHANGED << db, docs, msg, rows, txn, latest >>

\* SqliteStore::get_message: query_row(...).optional().unwrap(), a miss is
\* Ok(None), any other error of the row closure panics.
get_message(t) ==
    \E id \in 1..MaxMsgs :
        IF PreparesSelect({"id", "channel_id", "account_id", "role", "content",
                           "reply_to_id", "created_at"}, MessagesColumns(db.schema))
        THEN LET found == GetMessage(db, id) IN
             IF found = << >> THEN Read(t, "get_message", << id >>, << >>, "")
             ELSE IF MessageOfRow(found[1]) = << >>
             THEN Read(t, "get_message", << id >>, << >>, "panic")
             ELSE Read(t, "get_message", << id >>, MessageOfRow(found[1]), "")
        ELSE Read(t, "get_message", << id >>, << >>, "prepare")

\* KnowledgeBase::get_message: its SELECT names source, source_id and
\* channel_type, which messages has in neither schema.
kb_get_message(t) ==
    \E id \in 1..MaxMsgs :
        IF PreparesSelect({"id", "source", "source_id", "channel_type", "channel_id",
                           "account_id", "role", "content", "created_at"},
                          MessagesColumns(db.schema))
        THEN Read(t, "kb_get_message", << id >>, GetMessage(db, id), "")
        ELSE Read(t, "kb_get_message", << id >>, << >>, "prepare")

\* SqliteStore::get_recent_messages
get_recent_messages(t) ==
    \E channel_id \in 1..2, limit \in 0..MaxMsgs :
        IF PreparesSelect({"id", "channel_id", "account_id", "role", "content",
                           "reply_to_id", "created_at"}, MessagesColumns(db.schema))
        THEN \E r \in RecentMessages(db, channel_id, limit) :
                IF RowsParse(r)
                THEN Read(t, "get_recent_messages", << channel_id, limit >>,
                          MessagesOfRows(r), "")
                ELSE Read(t, "get_recent_messages", << channel_id, limit >>,
                          << >>, "invalid_query")
        ELSE Read(t, "get_recent_messages", << channel_id, limit >>, << >>, "prepare")

\* KnowledgeBase::get_recent_messages
kb_get_recent_messages(t) ==
    \E channel_id \in 1..2, limit \in 0..MaxMsgs :
        IF PreparesSelect({"id", "source", "source_id", "channel_type", "channel_id",
                           "account_id", "role", "content", "created_at"},
                          MessagesColumns(db.schema))
        THEN \E r \in RecentMessages(db, channel_id, limit) :
                Read(t, "kb_get_recent_messages", << channel_id, limit >>, r, "")
        ELSE Read(t, "kb_get_recent_messages", << channel_id, limit >>, << >>, "prepare")

\* SqliteStore::get_user_by_source: query_row takes the first row the SELECT
\* yields; the row closure parses the two timestamps with .parse().unwrap().
AccountsBySource(d, source) == {r \in d.accounts : r.source = source}
get_user_by_source(t) ==
    \E source \in Sources :
        IF ~PreparesSelect({"id", "name", "source", "created_at", "updated_at"},
                           AccountsColumns(db.schema))
        THEN Read(t, "get_user_by_source", << source >>, << >>, "prepare")
        ELSE IF AccountsBySource(db, source) = {}
        THEN Read(t, "get_user_by_source", << source >>, << >>, "")
        ELSE \E r \in AccountsBySource(db, source) :
                LET a == ParsedOrPanic(r, {"created_at", "updated_at"}) IN
                Read(t, "get_user_by_source", << source >>, a,
                     IF a = << >> THEN "panic" ELSE "")

\* KnowledgeBase::get_user_by_source: selects source_id as the Account's id
\* (an i64: row.get(0)? fails on the TEXT it finds).
kb_get_user_by_source(t) ==
    \E source \in Sources :
        IF ~PreparesSelect({"source_id", "name", "source", "created_at", "updated_at"},
                           AccountsColumns(db.schema))
        THEN Read(t, "kb_get_user_by_source", << source >>, << >>, "prepare")
        ELSE IF AccountsBySource(db, source) = {}
        THEN Read(t, "kb_get_user_by_source", << source >>, << >>, "")
        ELSE Read(t, "kb_get_user_by_source", << source >>, << >>, "column_type")

\* get_channel (the same in both stores): SELECT id, name, source,
\* created_at, updated_at FROM channels WHERE id = ?1; name is read as a
\* String (a NULL fails), the timestamps with .parse().unwrap().
ChannelOfRow(t, name, arg, R) ==
    IF R = {} THEN Read(t, name, arg, << >>, "")
    ELSE \E r \in R :
            IF r.name = << >> THEN Read(t, name, arg, << >>, "column_type")
            ELSE LET c == ParsedOrPanic(r, {"created_at", "updated_at"}) IN
                 Read(t, name, arg, c, IF c = << >> THEN "panic" ELSE "")
GetChannel(t, name, id) ==
    IF ~PreparesSelect({"id", "name", "source", "created_at", "updated_at"},
                       ChannelsColumns(db.schema))
    THEN Read(t, name, << id >>, << >>, "prepare")
    ELSE ChannelOfRow(t, name, << id >>, {r \in db.channels : r.id = id})
get_channel(t) ==
    /\ pc[t] = "idle"
    /\ \E id \in 1..MaxChannelSeq : GetChannel(t, "get_channel", id)
kb_get_channel(t) ==
    /\ pc[t] = "idle"
    /\ \E id \in 1..MaxChannelSeq : GetChannel(t, "kb_get_channel", id)

\* get_channels_by_source (the same in both stores): ... WHERE source = ?1,
\* every row through the same closure.
GetChannelsBySource(t, name, source) ==
    IF ~PreparesSelect({"id", "name", "source", "created_at", "updated_at"},
                       ChannelsColumns(db.schema))
    THEN Read(t, name, << source >>, << >>, "prepare")
    ELSE ChannelOfRow(t, name, << source >>, {r \in db.channels : r.source = source})
get_channels_by_source(t) ==
    /\ pc[t] = "idle"
    /\ \E source \in Sources : GetChannelsBySource(t, "get_channels_by_source", source)
kb_get_channels_by_source(t) ==
    /\ pc[t] = "idle"
    /\ \E source \in Sources :
          GetChannelsBySource(t, "kb_get_channels_by_source", source)

\* SqliteStore::get_conversation_between_users: WHERE (m.account_id = ?1 OR
\* (m.reply_to_id = ?1 AND m.account_id = ?2)) AND m.created_at > ?3 ORDER BY
\* m.created_at ASC LIMIT ?4.  `since` is bound in the format of the stored
\* text, so the comparison of the texts is the comparison of the instants.
UserPairs == {<< 1, 2 >>, << 2, 1 >>, << 1, 3 >>}
Sinces == {-1, 0}
ConversationRows(d, user_id, other_user_id, since) ==
    {m \in d.messages :
        /\ \/ m.account_id = user_id
           \/ m.reply_to_id = << user_id >> /\ m.account_id = other_user_id
        /\ m.created_at > since}
OldestSets(M, limit) ==
    {S \in SUBSET M :
        /\ Cardinality(S) = Min(limit, Cardinality(M))
        /\ \A a \in S : \A b \in M \ S : a.created_at <= b.created_at}
ByCreatedAsc(S) ==
    {s \in Orders(S) : \A i, j \in 1..Len(s) : i < j => s[i].created_at <= s[j].created_at}
get_conversation_between_users(t) ==
    \E u \in UserPairs, since \in Sinces, limit \in 1..MaxMsgs :
        \E S \in OldestSets(ConversationRows(db, u[1], u[2], since), limit) :
        \E r \in ByCreatedAsc(S) :
            IF RowsParse(r)
            THEN Read(t, "get_conversation_between_users", << u[1], u[2], since, limit >>,
                      MessagesOfRows(r), "")
            ELSE Read(t, "get_conversation_between_users", << u[1], u[2], since, limit >>,
                      << >>, "invalid_query")

\* SqliteStore::get_messages_by_channel: ... WHERE channel_id = ?1 ORDER BY
\* created_at ASC, created_at through .parse().unwrap() in the closure of
\* the first row already.
get_messages_by_channel(t) ==
    \E channel_id \in 1..2 :
        LET M == {m \in db.messages : m.channel_id = channel_id} IN
        \E r \in ByCreatedAsc(M) :
            IF \E i \in 1..Len(r) : ParsedOrPanic(r[i], {"created_at"}) = << >>
            THEN Read(t, "get_messages_by_channel", << channel_id >>, << >>, "panic")
            ELSE Read(t, "get_messages_by_channel", << channel_id >>,
                      [i \in 1..Len(r) |-> ParsedOrPanic(r[i], {"created_at"})[1]], "")

\* CURRENT_TIMESTAMP moves on by a second.
Tick ==
    /\ db.now < MaxTime
    /\ db' = [db EXCEPT !.now = @ + 1]
    /\ UNCHANGED << pc, op, docs, msg, qry, rows, out, ret, pre, txn, latest >>

\* The caller takes the result; the task is free for its next call.
Return(t) ==
    /\ pc[t] = "done"
    /\ pc' = [pc EXCEPT ![t] = "idle"]
    /\ op' = [op EXCEPT ![t] = "none"]
    /\ docs' = [docs EXCEPT ![t] = << >>]
    /\ msg' = [msg EXCEPT ![t] = NoMsg]
    /\ qry' = [qry EXCEPT ![t] = NoQuery]
    /\ rows' = [rows EXCEPT ![t] = << >>]
    /\ out' = [out EXCEPT ![t] = << >>]
    /\ ret' = [ret EXCEPT ![t] = "none"]
    /\ pre' = [pre EXCEPT ![t] = EmptyDb]
    /\ txn' = [txn EXCEPT ![t] = FALSE]
    /\ UNCHANGED << db, latest >>

Next ==
    \E t \in Tasks :
        \/ add_documents(t)
        \/ kb_add_documents_embed(t)
        \/ kb_add_documents_store(t)
        \/ kb_create_message_embed(t)
        \/ kb_create_message_store(t)
        \/ get_document(t)
        \/ get_document_embeddings_doc(t)
        \/ get_document_embeddings_query(t)
        \/ top_n_embed(t)
        \/ top_n_query(t)
        \/ top_n_fetch(t)
        \/ top_n_return(t)
        \/ top_n_ids_embed(t)
        \/ top_n_ids_query(t)
        \/ Return(t)

Spec == Init /\ [][Next]_vars

\* SqliteStore.conn is a public field and the database a file: another holder
\* of the connection can delete a documents row (DELETE FROM documents WHERE
\* doc_id = ?1) at any time, its vector row staying behind.
ExternalDelete(id) ==
    /\ \E r \in db.documents : r.doc_id = id
    /\ db' = [db EXCEPT !.documents = {r \in @ : r.doc_id # id}]
    /\ UNCHANGED << pc, op, docs, msg, qry, rows, out, ret, pre, txn, latest >>

NextDel ==
    \/ Next
    \/ \E id \in DocIds : ExternalDelete(id)

SpecDel == Init /\ [][NextDel]_vars

(* ------------------ the conversational record store -------------------- *)
\* A database created by either `new`, linked against an SQLite that enforces
\* foreign keys by default or one that does not.
ChatDbs == {[EmptyDb EXCEPT !.schema = s, !.fk = f] : s \in Schemas, f \in BOOLEAN}

\* The accounts of the store.
NextAccounts ==
    \/ \E t \in Tasks :
        \/ create_user(t)
        \/ kb_create_user(t)
        \/ get_user_by_source(t)
        \/ kb_get_user_by_source(t)
        \/ Return(t)
    \/ Tick

SpecAccounts == InitOver(Tasks, ChatDbs) /\ [][NextAccounts]_vars

\* The channels of the store.
NextChannels ==
    \/ \E t \in Tasks :
        \/ create_channel(t)
        \/ kb_create_channel(t)
        \/ get_channel(t)
        \/ kb_get_channel(t)
        \/ get_channels_by_source(t)
        \/ kb_get_channels_by_source(t)
        \/ Return(t)
    \/ Tick

SpecChannels == InitOver(Tasks, ChatDbs) /\ [][NextChannels]_vars

\* The messages of the store, with one account and one channel for them to
\* refer to.
first_user(t) ==
    /\ db.accounts = {}
    /\ create_user(t)
    /\ qry'[t].arg = << "alice", "discord", 1 >>
first_channel(t) ==
    /\ db.channels = {}
    /\ create_channel(t)
    /\ qry'[t].arg = << "c1", "discord", << >> >>

NextMessages ==
    \/ \E t \in Tasks :
        \/ first_user(t)
        \/ first_channel(t)
        \/ create_message(t)
        \/ kb_create_message_embed(t)
        \/ kb_create_message_store(t)
        \/ get_message(t)
        \/ kb_get_message(t)
        \/ get_recent_messages(t)
        \/ kb_get_recent_messages(t)
        \/ get_conversation_between_users(t)
        \/ get_messages_by_channel(t)
        \/ Return(t)
    \/ Tick

SpecMessages == InitOver(Tasks, ChatDbs) /\ [][NextMessages]_vars

(* ------------------- callers sharing the connection -------------------- *)
\* Cap on the AUTOINCREMENT counter of documents when two callers run.
MaxConcRowId == 2

\* Two holders of clones of the store (SqliteStore and KnowledgeBase are
\* Clone, the tokio_rusqlite Connection is shared): t1 reads and adds, t2 adds
\* through either API and may drop its call.
Callers == {"t1", "t2"}
Readers == {"t1"}
KbCallers == {"t2"}

\* conn.call sends the closure to the one thread that owns the rusqlite
\* connection, which runs the closures it receives one after the other: a
\* closure starts only when none is running.
ConnAlwaysFree == TRUE
ConnFree == \A u \in DOMAIN pc : pc[u] # "txn"

\* Vectors that single precision represents exactly.
ExactVecs == {v \in GoodVecs : \A i \in 1..Dim : v[i] % 2 = 0}
\* The adds of the concurrent callers: one document with one vector, of the
\* right dimension or not.
ConcBatches ==
    {<< [id |-> i, document |-> c, embeddings |-> << v >>] >> :
        i \in DocIds, c \in Contents, v \in ExactVecs \cup BadVecs}

\* The transaction of add_documents after its first n statements (or up to
\* the statement that failed, if one of them did).
TxnAfter(d, documents, n) ==
    LET s == StoreDocuments([db |-> d, err |-> "", n |-> 0], documents, 1, n + 1)
    IN IF s.err = "engine" THEN [s EXCEPT !.err = "", !.n = n] ELSE s
\* ... and of create_message.
CreateMessageAfter(d, m, embs, n) ==
    LET s == CreateMessageStmts(d, m, embs, n + 1)
    IN IF s.err = "engine" THEN [s EXCEPT !.err = "", !.n = n] ELSE s

TxnLen(t) ==
    IF op[t] = "kb_create_message" THEN 1 + Len(docs[t][1].embeddings)
    ELSE NStmts(docs[t], 1)
TxnState(t, n) ==
    IF op[t] = "kb_create_message"
    THEN CreateMessageAfter(pre[t], msg[t], docs[t][1].embeddings, n)
    ELSE TxnAfter(pre[t], docs[t], n)

\* history: every committed version of a doc_id, the newest first
RECURSIVE RecordVersions(_, _, _)
RecordVersions(l, documents, i) ==
    IF i > Len(documents) THEN l
    ELSE RecordVersions([l EXCEPT ![documents[i].id] =
                            << [document |-> documents[i].document,
                                embeddings |-> documents[i].embeddings] >> \o @],
                        documents, i + 1)

\* SqliteStore::add_documents, its closure starting on the connection's
\* thread: conn.transaction().  pre[t] is what a rollback restores.
add_documents_begin(t) ==
    /\ pc[t] = "idle"
    /\ ConnFree
    /\ db.seq < MaxConcRowId
    /\ \E documents \in ConcBatches : docs' = [docs EXCEPT ![t] = documents]
    /\ pc' = [pc EXCEPT ![t] = "txn"]
    /\ op' = [op EXCEPT ![t] = "add_documents"]
    /\ pre' = [pre EXCEPT ![t] = db]
    /\ txn' = [txn EXCEPT ![t] = TRUE]
    /\ UNCHANGED << db, msg, qry, rows, out, ret, latest >>

\* KnowledgeBase::add_documents / create_message after the provider's answer:
\* the closure of add_rows / of conn.call starts.
kb_store_begin(t) ==
    /\ pc[t] = "store"
    /\ ConnFree
    /\ op[t] = "kb_add_documents" => db.seq < MaxConcRowId
    /\ pc' = [pc EXCEPT ![t] = "txn"]
    /\ pre' = [pre EXCEPT ![t] = db]
    /\ txn' = [txn EXCEPT ![t] = TRUE]
    /\ UNCHANGED << db, op, docs, msg, qry, rows, out, ret, latest >>

\* The next statement of the running transaction.  A failing statement leaves
\* the closure through `?`: the transaction is dropped and rolls back.
txn_statement(t) ==
    /\ pc[t] = "txn"
    /\ qry[t].cur < TxnLen(t)
    /\ LET s == TxnState(t, qry[t].cur + 1) IN
       IF s.err # ""
       THEN /\ db' = Rollback(pre[t], s.db)
            /\ pc' = [pc EXCEPT ![t] = "done"]
            /\ ret' = [ret EXCEPT ![t] = IF @ = "cancelled" THEN @ ELSE s.err]
            /\ qry' = qry
       ELSE /\ db' = s.db
            /\ qry' = [qry EXCEPT ![t].cur = @ + 1]
            /\ UNCHANGED << pc, ret >>
    /\ UNCHANGED << op, docs, msg, rows, out, pre, txn, latest >>

\* tx.commit()
txn_commit(t) ==
    /\ pc[t] = "txn"
    /\ qry[t].cur = TxnLen(t)
    /\ pc' = [pc EXCEPT ![t] = "done"]
    /\ ret' = [ret EXCEPT ![t] = IF @ = "cancelled" THEN @ ELSE "ok"]
    /\ latest' = IF op[t] = "kb_create_message" THEN latest
                 ELSE RecordVersions(latest, docs[t], 1)
    /\ UNCHANGED << db, op, docs, msg, qry, rows, out, pre, txn >>

\* The caller drops the future of an add.  Where the closure stands when its
\* caller is gone: nothing takes it off the connection's thread.
DropCallerAbortsClosure(p) == "done"
DropCaller(p) == p

\* Dropped before conn.call was polled (while the provider was awaited):
\* nothing was sent to the connection.
cancel_before_call(t) ==
    /\ pc[t] = "store"
    /\ pc' = [pc EXCEPT ![t] = "idle"]
    /\ op' = [op EXCEPT ![t] = "none"]
    /\ docs' = [docs EXCEPT ![t] = << >>]
    /\ msg' = [msg EXCEPT ![t] = NoMsg]
    /\ pre' = [pre EXCEPT ![t] = EmptyDb]
    /\ UNCHANGED << db, qry, rows, out, ret, txn, latest >>

\* Dropped while the result of conn.call was awaited: the closure has been
\* sent, its result will find no receiver.
cancel_in_call(t) ==
    /\ t \in KbCallers
    /\ pc[t] = "txn"
    /\ ret[t] = "none"
    /\ pc' = [pc EXCEPT ![t] = DropCaller(pc[t])]
    /\ ret' = [ret EXCEPT ![t] = "cancelled"]
    /\ UNCHANGED << db, op, docs, msg, qry, rows, out, pre, txn, latest >>

\* The calls of the two callers.  Each call on the connection waits for the
\* connection's thread; the adds and searches take their arguments from the
\* small sets above.
conc_kb_add_documents_embed_in_txn(t) ==
    /\ t \in KbCallers
    /\ pc[t] = "idle"
    /\ ConnFree
    /\ db.seq < MaxConcRowId
    /\ \E documents \in ConcBatches : docs' = [docs EXCEPT ![t] = documents]
    /\ pc' = [pc EXCEPT ![t] = "txn"]
    /\ op' = [op EXCEPT ![t] = "kb_add_documents"]
    /\ pre' = [pre EXCEPT ![t] = db]
    /\ txn' = [txn EXCEPT ![t] = TRUE]
    /\ UNCHANGED << db, msg, qry, rows, out, ret, latest >>
conc_kb_add_documents_embed(t) ==
    /\ t \in KbCallers
    /\ kb_add_documents_embed(t)
    /\ pc'[t] = "store"
    /\ docs'[t] \in ConcBatches
conc_kb_create_message_embed(t) ==
    /\ t \in KbCallers
    /\ kb_create_message_embed(t)
    /\ pc'[t] = "store"
    /\ docs'[t][1].embeddings[1] \in ExactVecs
conc_get_document(t) == t \in Readers /\ ConnFree /\ get_document(t)
conc_get_document_embeddings_doc(t) ==
    t \in Readers /\ ConnFree /\ get_document_embeddings_doc(t)
conc_get_document_embeddings_query(t) == ConnFree /\ get_document_embeddings_query(t)
conc_top_n_embed(t) ==
    /\ t \in Readers
    /\ top_n_embed(t)
    /\ pc'[t] = "query"
    /\ qry'[t].n >= 1
    /\ Len(qry'[t].vec) = 4 * Dim
conc_top_n_query(t) == ConnFree /\ top_n_query(t)
conc_top_n_fetch(t) == ConnFree /\ top_n_fetch(t)
conc_get_message(t) == t \in Readers /\ ConnFree /\ get_message(t)
conc_get_recent_messages(t) == t \in Readers /\ ConnFree /\ get_recent_messages(t)

NextConc ==
    \E t \in Callers :
        \/ add_documents_begin(t)
        \/ conc_kb_add_documents_embed(t)
        \/ conc_kb_create_message_embed(t)
        \/ kb_store_begin(t)
        \/ txn_statement(t)
        \/ txn_commit(t)
        \/ cancel_before_call(t)
        \/ cancel_in_call(t)
        \/ conc_get_document(t)
        \/ conc_get_document_embeddings_doc(t)
        \/ conc_get_document_embeddings_query(t)
        \/ conc_top_n_embed(t)
        \/ conc_top_n_query(t)
        \/ conc_top_n_fetch(t)
        \/ top_n_return(t)
        \/ conc_get_message(t)
        \/ conc_get_recent_messages(t)
        \/ Return(t)

SpecConc == InitOver(Callers, {EmptyDb}) /\ [][NextConc]_vars

(* ------------------------- the reads together -------------------------- *)
\* The Q of get_document_by_query is a String whose bytes are bound as the
\* MATCH vector: a string whose bytes happen to be Dim float32 values, or a
\* one-letter string.
QueryStrings == {Encode(v) : v \in GoodVecs} \cup {<< 97 >>}

\* get_document_by_query, first conn.call: the KNN query with k = 1,
\* query_row(...).optional().
get_document_by_query_knn(t) ==
    /\ pc[t] = "idle"
    /\ \E q \in QueryStrings :
        /\ IF Len(q) # 4 * Dim
           THEN /\ pc' = [pc EXCEPT ![t] = "done"]
                /\ ret' = [ret EXCEPT ![t] = "dimension"]
                /\ qry' = [qry EXCEPT ![t] = [NoQuery EXCEPT !.vec = q, !.n = 1]]
           ELSE \E r \in KnnRows(db, q, 1) :
                IF r = << >>
                THEN /\ pc' = [pc EXCEPT ![t] = "done"]
                     /\ ret' = [ret EXCEPT ![t] = "ok"]
                     /\ qry' = [qry EXCEPT ![t] = [NoQuery EXCEPT !.vec = q, !.n = 1]]
                ELSE /\ pc' = [pc EXCEPT ![t] = "byq"]
                     /\ ret' = ret
                     /\ qry' = [qry EXCEPT ![t] =
                                   [NoQuery EXCEPT !.vec = q, !.n = 1, !.id = r[1].doc_id]]
    /\ op' = [op EXCEPT ![t] = "get_document_by_query"]
    /\ pre' = [pre EXCEPT ![t] = db]
    /\ UNCHANGED << db, docs, msg, rows, out, txn, latest >>

\* ... then self.get_document_embeddings(&id): its get_document ...
get_document_by_query_doc(t) ==
    /\ pc[t] = "byq"
    /\ IF GetDocument(db, qry[t].id) = << >>
       THEN /\ pc' = [pc EXCEPT ![t] = "done"]
            /\ ret' = [ret EXCEPT ![t] = "ok"]
            /\ out' = out
       ELSE /\ pc' = [pc EXCEPT ![t] = "embq"]
            /\ ret' = ret
            /\ out' = [out EXCEPT ![t] =
                  << [id |-> qry[t].id, document |-> GetDocument(db, qry[t].id)[1],
                      embeddings |-> << >>] >>]
    /\ UNCHANGED << db, op, docs, msg, qry, rows, pre, txn, latest >>
\* ... and its join (get_document_embeddings_query).

\* The writers beside the reads: adds of one document, messages of one
\* author in one channel.
one_add_documents(t) ==
    /\ pc[t] = "idle"
    /\ db.seq < MaxRowId
    /\ \E d \in DocumentEmbeddings : AddDocumentsCall(t, << d >>)
one_create_message(t) ==
    /\ create_message(t)
    /\ qry'[t].arg = << 1, 1, << >>, "user", "a" >>

NextReads ==
    \E t \in Tasks :
        \/ one_add_documents(t)
        \/ one_create_message(t)
        \/ get_document(t)
        \/ get_document_embeddings_doc(t)
        \/ get_document_embeddings_query(t)
        \/ get_document_by_query_knn(t)
        \/ get_document_by_query_doc(t)
        \/ top_n_embed(t)
        \/ top_n_query(t)
        \/ top_n_fetch(t)
        \/ top_n_return(t)
        \/ top_n_ids_embed(t)
        \/ top_n_ids_query(t)
        \/ get_message(t)
        \/ get_recent_messages(t)
        \/ Return(t)

\* A store whose SQLite does not enforce foreign keys: messages can be
\* written before any account or channel.
SpecReads == InitOver(Tasks, {[EmptyDb EXCEPT !.fk = FALSE]}) /\ [][NextReads]_vars

(* --------------------------- the codec alone --------------------------- *)
\* Longest vector handed to the codec, and most bytes a stored blob loses.
MaxCodecLen == 2
MaxCut == 3

\* Every finite f64 of the model, those beyond the single-precision range
\* included.
FiniteF64 == 0..F64Max
CodecVecs == UNION {[1..n -> FiniteF64] : n \in 0..MaxCodecLen}

CodecInput(t) == docs[t][1].embeddings[1]

\* A caller holding one vector to store.
InitCodec ==
    /\ db = EmptyDb
    /\ pc = [t \in Tasks |-> "idle"]
    /\ op = [t \in Tasks |-> "none"]
    /\ docs \in {[t \in Tasks |-> << [id |-> "", document |-> "", embeddings |-> << v >>] >>] :
                    v \in CodecVecs}
    /\ msg = [t \in Tasks |-> NoMsg]
    /\ qry = [t \in Tasks |-> NoQuery]
    /\ rows = [t \in Tasks |-> << >>]
    /\ out = [t \in Tasks |-> << >>]
    /\ ret = [t \in Tasks |-> "none"]
    /\ pre = [t \in Tasks |-> EmptyDb]
    /\ txn = [t \in Tasks |-> FALSE]
    /\ latest = [d \in DocIds |-> << >>]

\* Self::serialize_embedding(&embedding) and .as_bytes(): the blob bound to
\* the INSERT into embeddings.
codec_encode(t) ==
    /\ pc[t] = "idle"
    /\ pc' = [pc EXCEPT ![t] = "encoded"]
    /\ op' = [op EXCEPT ![t] = "round_trip"]
    /\ qry' = [qry EXCEPT ![t].vec = Encode(CodecInput(t))]
    /\ UNCHANGED << db, docs, msg, rows, out, ret, pre, txn, latest >>

\* The stored blob loses bytes at its end (a damaged database file).
codec_cut(t) ==
    /\ pc[t] = "encoded"
    /\ \E n \in 1..Min(MaxCut, Len(qry[t].vec)) :
           qry' = [qry EXCEPT ![t].vec = SubSeq(qry[t].vec, 1, Len(qry[t].vec) - n)]
    /\ pc' = [pc EXCEPT ![t] = "damaged"]
    /\ op' = [op EXCEPT ![t] = "decode_damaged"]
    /\ UNCHANGED << db, docs, msg, rows, out, ret, pre, txn, latest >>

\* The row closure of get_document_embeddings on the blob.
codec_decode(t) ==
    /\ pc[t] \in {"encoded", "damaged"}
    /\ pc' = [pc EXCEPT ![t] = "done"]
    /\ out' = [out EXCEPT ![t] = DecodeBlob(qry[t].vec).vec]
    /\ ret' = [ret EXCEPT ![t] = DecodeBlob(qry[t].vec).ret]
    /\ UNCHANGED << db, op, docs, msg, qry, rows, pre, txn, latest >>

NextCodec ==
    \E t \in Tasks :
        \/ codec_encode(t)
        \/ codec_cut(t)
        \/ codec_decode(t)

SpecCodec == InitCodec /\ [][NextCodec]_vars

(* ============================== claims ================================== *)
Done(t, o) == pc[t] = "done" /\ op[t] = o

\* C1: when the embedding provider fails during KnowledgeBase.add_documents
\* or KnowledgeBase.create_message, the call returns the provider's error,
\* it has opened no transaction, and every table (relational and vector) is
\* as it was when the call started.
C1_ProviderFailureWritesNothing ==
    \A t \in Tasks :
        (/\ pc[t] = "done"
         /\ op[t] \in {"kb_add_documents", "kb_create_message"}
         /\ ret[t] = "provider")
        => (db = pre[t] /\ ~txn[t])
\* a provider failure of an add of at least one document into a store that
\* already holds rows and vectors
C1_Witness ==
    \E t \in Tasks :
        /\ Done(t, "kb_add_documents")
        /\ ret[t] = "provider"
        /\ Len(docs[t]) >= 1
        /\ db.documents # {}
        /\ db.embeddings # {}

\* C2: when a statement fails after the dual-write transaction has opened
\* (the relational insert, a vector insert or the commit, for any document
\* of the batch), neither documents nor embeddings (nor any other table)
\* differs from its state before the call.
C2_FailedTransactionRollsBack ==
    \A t \in Tasks :
        (pc[t] = "done" /\ txn[t] /\ ret[t] # "ok") => db = pre[t]
\* a batch of two whose first document was written (row and vector) before a
\* vector insert of the second failed
C2_Witness ==
    \E t \in Tasks :
        /\ Done(t, "add_documents")
        /\ Len(docs[t]) = 2
        /\ Len(docs[t][1].embeddings) = 1
        /\ docs[t][1].embeddings[1] \in GoodVecs
        /\ Len(docs[t][2].embeddings) = 1
        /\ docs[t][2].embeddings[1] \in BadVecs
        /\ ret[t] = "dimension"
        /\ db.documents # {}

\* C3 (as claimed): every row of embeddings has the id of a row that is in
\* documents now.
C3_NoOrphanVectors ==
    \A e \in db.embeddings : \E r \in db.documents : r.id = e.rowid

\* C4: documents holds at most one row per doc_id, and that row's content is
\* the content of the most recent committed add of that doc_id.
C4_OneRowPerDocIdLatestContent ==
    \A id \in DocIds :
        LET rs == {r \in db.documents : r.doc_id = id} IN
        /\ Cardinality(rs) <= 1
        /\ latest[id] = << >> => rs = {}
        /\ latest[id] # << >> =>
              (rs # {} /\ \A r \in rs : r.document = latest[id][1].document)
\* a committed add that replaced the content of a document already stored
C4_Witness ==
    \E t \in Tasks :
        /\ Done(t, "add_documents")
        /\ ret[t] = "ok"
        /\ \E r \in pre[t].documents : \E r2 \in db.documents :
              r.doc_id = r2.doc_id /\ r.document # r2.document

\* C5: get_document_embeddings(doc_id) returns the document and exactly the
\* vectors of the most recent committed add of that doc_id (None when there
\* was none), each as the codec stores it, and no vector of an earlier
\* version.
AsStored(vec) == Decode(Encode(vec))
C5_EmbeddingsOfLatestAdd ==
    \A t \in Tasks :
        (Done(t, "get_document_embeddings") /\ ret[t] = "ok") =>
            LET l == latest[qry[t].id] IN
            IF l = << >> THEN out[t] = << >>
            ELSE /\ Len(out[t]) = 1
                 /\ out[t][1].document = l[1].document
                 /\ out[t][1].embeddings =
                        [i \in 1..Len(l[1].embeddings) |-> AsStored(l[1].embeddings[i])]
\* the only document of the store was re-added with another vector (the old
\* vector row is still in the index) and its embeddings are read
C5_Witness ==
    \E t \in Tasks :
        /\ Done(t, "get_document_embeddings")
        /\ ret[t] = "ok"
        /\ Len(out[t]) = 1
        /\ Len(out[t][1].embeddings) = 1
        /\ Cardinality(db.documents) = 1
        /\ \E e \in db.embeddings :
              /\ \A r \in db.documents : r.id # e.rowid
              /\ Decode(e.embedding) # out[t][1].embeddings[1]

\* C6 (as claimed): an add whose documents carry vectors of the right
\* dimension, one of them more than one vector, succeeds when the engine
\* does not fail, and every vector of a document is in the index under the
\* id of that document's row.
C6_MultiVectorAddSucceeds ==
    \A t \in Tasks :
        (/\ Done(t, "add_documents")
         /\ \A i \in 1..Len(docs[t]) : \A j \in 1..Len(docs[t][i].embeddings) :
               docs[t][i].embeddings[j] \in GoodVecs
         /\ \A i, k \in 1..Len(docs[t]) : docs[t][i].id = docs[t][k].id => i = k
         /\ ret[t] # "engine")
        => /\ ret[t] = "ok"
           /\ \A i \in 1..Len(docs[t]) : \A j \in 1..Len(docs[t][i].embeddings) :
                 \E r \in db.documents : \E e \in db.embeddings :
                    /\ r.doc_id = docs[t][i].id
                    /\ e.rowid = r.id
                    /\ e.embedding = Encode(docs[t][i].embeddings[j])

\* The documents that have a vector row of their own, and the distance of
\* that row to the query.
Indexed == {r \in db.documents : \E e \in db.embeddings : e.rowid = r.id}
CurrentDistance(r, q) ==
    Distance((CHOOSE e \in db.embeddings : e.rowid = r.id).embedding, q)
Returned(t) == {out[t][i].id : i \in 1..Len(out[t])}
\* No two vector rows are equally far from the query: the result does not
\* hang on how the index breaks a tie.
NoTies(q) ==
    \A e1, e2 \in db.embeddings :
        e1 # e2 => Distance(e1.embedding, q) # Distance(e2.embedding, q)

\* C7 (as claimed): top_n(query, k) returns min(k, number of documents in
\* the index) documents, and no document left out is strictly closer to the
\* query, by its current vector, than a document returned.  (Stated for
\* stores without ties, and counting only documents that have a vector.)
C7_TopNReturnsNearest ==
    \A t \in Tasks :
        (Done(t, "top_n") /\ ret[t] = "ok" /\ NoTies(qry[t].vec)) =>
            /\ Len(out[t]) = Min(qry[t].n, Cardinality(Indexed))
            /\ \A r \in Indexed : \A r2 \in Indexed :
                  (r.doc_id \notin Returned(t) /\ r2.doc_id \in Returned(t))
                  => ~(CurrentDistance(r, qry[t].vec) < CurrentDistance(r2, qry[t].vec))

\* C8: top_n(query, k) and top_n_ids(query, k) return at most k results, in
\* non-decreasing order of distance.
C8_AtMostKAscending ==
    \A t \in Tasks :
        (pc[t] = "done" /\ op[t] \in {"top_n", "top_n_ids"} /\ ret[t] = "ok") =>
            /\ Len(out[t]) <= qry[t].n
            /\ \A i, j \in 1..Len(out[t]) :
                  i < j => out[t][i].distance <= out[t][j].distance
\* top_n with k = 2 over three vector rows returns two documents at
\* different distances
C8_Witness ==
    \E t \in Tasks :
        /\ Done(t, "top_n")
        /\ ret[t] = "ok"
        /\ qry[t].n = 2
        /\ Cardinality(db.embeddings) = 3
        /\ Len(out[t]) = 2
        /\ out[t][1].distance < out[t][2].distance

\* C9 (as claimed): on an empty index top_n returns the empty sequence
\* without error, and with k at least the number of stored documents it
\* returns every document of the index, also after re-adds.  (Stated for
\* stores without ties, and asking only for documents that have a vector.)
C9_TopNReturnsAllWhenKLarge ==
    \A t \in Tasks :
        (Done(t, "top_n") /\ ret[t] = "ok" /\ NoTies(qry[t].vec)) =>
            /\ db.embeddings = {} => out[t] = << >>
            /\ qry[t].n >= Cardinality(db.documents) =>
                  \A r \in Indexed : r.doc_id \in Returned(t)

\* C10: in top_n a hit whose document cannot be fetched any more is dropped
\* and raises no error; what top_n returns are the remaining hits as
\* (distance, id, record), in the order the query produced them.
InOrderOf(o, rs) ==
    \E f \in [1..Len(o) -> 1..Len(rs)] :
        /\ \A i, j \in 1..Len(o) : i < j => f[i] < f[j]
        /\ \A i \in 1..Len(o) :
              o[i].distance = rs[f[i]].distance /\ o[i].id = rs[f[i]].doc_id
C10_MissingHitDroppedOrderKept ==
    \A t \in Tasks :
        /\ (pc[t] = "fetch" /\ op[t] = "top_n") => ret[t] = "none"
        /\ (Done(t, "top_n") /\ qry[t].cur > 0) =>
              /\ ret[t] = "ok"
              /\ InOrderOf(out[t], rows[t])
              /\ \A i \in 1..Len(out[t]) :
                    << out[t][i].doc >> = GetDocument(pre[t], out[t][i].id)
              /\ \A j \in 1..Len(rows[t]) :
                    GetDocument(db, rows[t][j].doc_id) # << >>
                    => rows[t][j].doc_id \in Returned(t)
\* the query produced two hits, the document of the first was deleted before
\* its fetch, and top_n returned the second alone
C10_Witness ==
    \E t \in Tasks :
        /\ Done(t, "top_n")
        /\ ret[t] = "ok"
        /\ Len(rows[t]) = 2
        /\ Len(out[t]) = 1
        /\ out[t][1].id = rows[t][2].doc_id
        /\ GetDocument(db, rows[t][1].doc_id) = << >>

\* C11 (as claimed): a top_n or get_document_embeddings that runs while
\* another caller adds the same doc_id returns what the store held before
\* that add or what it held after it: the record returned for a doc_id and
\* the distance (the embeddings) returned with it belong to one committed
\* version of that document.
Versions(id) == {latest[id][j] : j \in 1..Len(latest[id])}
C11_ReadsSeeOneVersion ==
    \A t \in DOMAIN pc :
        /\ (Done(t, "top_n") /\ ret[t] = "ok") =>
              \A i \in 1..Len(out[t]) : \E v \in Versions(out[t][i].id) :
                  /\ out[t][i].doc = v.document
                  /\ out[t][i].distance = Distance(Encode(v.embeddings[1]), qry[t].vec)
        /\ (Done(t, "get_document_embeddings") /\ ret[t] = "ok" /\ out[t] # << >>) =>
              \E v \in Versions(out[t][1].id) :
                  /\ out[t][1].document = v.document
                  /\ out[t][1].embeddings =
                        [k \in 1..Len(v.embeddings) |-> AsStored(v.embeddings[k])]

\* C12: a read running next to an add never observes data of a transaction
\* that has not committed: every document, vector and message a read hands
\* out belongs to a committed add, a document comes with its vector, and
\* nothing of an add that is in flight or was rolled back is seen.
CommittedDb == IF \E u \in DOMAIN pc : pc[u] = "txn"
               THEN pre[CHOOSE u \in DOMAIN pc : pc[u] = "txn"]
               ELSE db
CommittedDocuments(id) == {v.document : v \in Versions(id)}
CommittedEmbeddings(id) ==
    UNION {{AsStored(v.embeddings[k]) : k \in 1..Len(v.embeddings)} : v \in Versions(id)}
C12_NoDirtyReads ==
    \A t \in DOMAIN pc :
        /\ (op[t] = "get_document" /\ out[t] # << >>) =>
              out[t][1] \in CommittedDocuments(qry[t].id)
        /\ (op[t] = "get_document_embeddings" /\ out[t] # << >>) =>
              /\ out[t][1].document \in CommittedDocuments(out[t][1].id)
              /\ \A k \in 1..Len(out[t][1].embeddings) :
                    out[t][1].embeddings[k] \in CommittedEmbeddings(out[t][1].id)
              /\ pc[t] = "done" => out[t][1].embeddings # << >>
        /\ op[t] = "top_n" =>
              /\ \A i \in 1..Len(rows[t]) :
                    \E e \in CommittedEmbeddings(rows[t][i].doc_id) :
                        rows[t][i].distance = Distance(Encode(e), qry[t].vec)
              /\ \A i \in 1..Len(out[t]) :
                    out[t][i].doc \in CommittedDocuments(out[t][i].id)
        /\ op[t] \in {"get_message", "get_recent_messages"} =>
              \A i \in 1..Len(out[t]) : out[t][i] \in CommittedDb.messages

\* get_document_embeddings has read its document and waits for its second
\* call while an add of the same doc_id has run its first statement and has
\* not committed.
C12_Witness ==
    /\ pc["t1"] = "embq"
    /\ pc["t2"] = "txn" /\ qry["t2"].cur >= 1
    /\ docs["t2"][1].id = qry["t1"].id

\* C13: an add dropped by its caller, before its call on the connection or
\* while the call runs, ends with both the relational row and its vector row
\* written or with neither: a drop before the call changes no table, and when
\* the transaction of a dropped add is over, every documents row it wrote has
\* a vector row it wrote under the same id, and the other way round.
Paired(before, after) ==
    LET rs == after.documents \ before.documents
        es == after.embeddings \ before.embeddings
    IN /\ \A r \in rs : \E e \in es : e.rowid = r.id
       /\ \A e \in es : \E r \in rs : r.id = e.rowid
       /\ after.messages = before.messages
       /\ after.channels = before.channels
C13_CancelledAddAllOrNothing ==
    [][\A t \in DOMAIN pc :
          /\ (pc[t] = "store" /\ pc'[t] = "idle") => db' = db
          /\ (pc[t] = "txn" /\ pc'[t] = "done" /\ ret'[t] = "cancelled") =>
                Paired(pre[t], db')]_vars

\* A dropped add whose transaction went on and committed its document.
C13_Witness ==
    /\ pc["t2"] = "done" /\ ret["t2"] = "cancelled" /\ op["t2"] = "kb_add_documents"
    /\ \E r \in db.documents \ pre["t2"].documents :
          /\ r.doc_id = docs["t2"][1].id
          /\ \E e \in db.embeddings : e.rowid = r.id

\* C14: in KnowledgeBase.add_documents and create_message the embedding
\* provider has answered before the transaction is opened (the transaction
\* opens from the point after .build().await, with the vectors in hand), and
\* between the opening of the transaction and its commit or rollback the call
\* does nothing but the transaction: no step of it asks the provider.
KbAdds == {"kb_add_documents", "kb_create_message"}
Embedded(t) == docs[t] # << >> /\ \A i \in 1..Len(docs[t]) : docs[t][i].embeddings # << >>
C14_ProviderBeforeTransaction ==
    [][\A t \in DOMAIN pc :
          /\ (op'[t] \in KbAdds /\ ~txn[t] /\ txn'[t]) =>
                pc[t] = "store" /\ ret[t] = "none" /\ Embedded(t)
          /\ (op[t] \in KbAdds /\ pc[t] = "txn") =>
                /\ pc'[t] \in {"txn", "done"}
                /\ docs'[t] = docs[t]]_vars

\* The transaction of a KnowledgeBase add is open, the vectors are there.
C14_Witness ==
    \E t \in DOMAIN pc :
        /\ op[t] \in KbAdds /\ pc[t] = "txn" /\ txn[t]
        /\ ret[t] = "none"
        /\ Embedded(t)

\* C15: KnowledgeBase.create_message of a message whose channel and account
\* exist, with a provider that answers and an engine that does not fail,
\* returns ok, and the message's row is in messages with its vector row under
\* the same id.
C15_CreateMessageStoresMessage ==
    \A t \in DOMAIN pc :
        (/\ Done(t, "kb_create_message")
         /\ ret[t] \notin {"provider", "engine", "dimension"}
         /\ \E c \in pre[t].channels : c.id = msg[t].channel_id
         /\ \E a \in pre[t].accounts : a.id = msg[t].account_id)
        => /\ ret[t] = "ok"
           /\ \E m \in db.messages : m.id = msg[t].id /\ m.content = msg[t].content
           /\ \E e \in db.embeddings : e.rowid = msg[t].id

OwnSchema(t) ==
    db.schema = (IF op[t] \in {"create_user", "create_channel"} THEN "SqliteStore"
                 ELSE "KnowledgeBase")
NoOtherNameUnderId(t) ==
    op[t] = "create_user" =>
        \A r \in pre[t].accounts : r.id = qry[t].arg[3] => r.name = qry[t].arg[1]
C17_CreateUserIdempotentByName ==
    \A t \in DOMAIN pc :
        (/\ pc[t] = "done" /\ op[t] \in {"create_user", "kb_create_user"}
         /\ OwnSchema(t)
         /\ NoOtherNameUnderId(t))
        => /\ ret[t] = "ok"
           /\ Cardinality({r \in db.accounts : r.name = qry[t].arg[1]}) = 1
           /\ \A r \in pre[t].accounts :
                 r.name = qry[t].arg[1] =>
                    /\ out[t] = << r.id >>
                    /\ \E r2 \in db.accounts : r2 = [r EXCEPT !.updated_at = r2.updated_at]

\* C18: create_user for an account that is stored already, matched by its
\* name or by its external identifier (the id of SqliteStore, the source_id of
\* KnowledgeBase), returns ok and the id of a stored row it matches.
MatchesStored(t, r) ==
    \/ r.name = qry[t].arg[1]
    \/ IF op[t] = "create_user" THEN r.id = qry[t].arg[3] ELSE r.source_id = qry[t].arg[3]
C18_CreateUserNeverFailsOnExisting ==
    \A t \in DOMAIN pc :
        (/\ pc[t] = "done" /\ op[t] \in {"create_user", "kb_create_user"}
         /\ OwnSchema(t)
         /\ \E r \in pre[t].accounts : MatchesStored(t, r))
        => /\ ret[t] = "ok"
           /\ \E r \in pre[t].accounts : MatchesStored(t, r) /\ out[t] = << r.id >>

\* C19: channels never has two rows of one external channel_id; a
\* create_channel for a channel_id that is stored returns ok and the id of
\* the stored row, and leaves that row with its stored name when no name was
\* passed and with the new name when one was.
ChannelCalls == {"create_channel", "kb_create_channel"}
C19_OneChannelPerChannelId ==
    /\ \A r1, r2 \in db.channels : r1.channel_id = r2.channel_id => r1 = r2
    /\ \A t \in DOMAIN pc :
          (pc[t] = "done" /\ op[t] \in ChannelCalls) =>
              \A r \in pre[t].channels :
                  r.channel_id = qry[t].arg[1] =>
                     /\ ret[t] = "ok"
                     /\ out[t] = << r.id >>
                     /\ \E r2 \in db.channels :
                           /\ r2.channel_id = r.channel_id
                           /\ r2.id = r.id
                           /\ r2.name = IF qry[t].arg[3] = << >> THEN r.name
                                        ELSE qry[t].arg[3]

\* A repeated create_channel without a name for a channel stored with one,
\* in a table of two channels.
C19_Witness ==
    /\ \E t \in DOMAIN pc :
          /\ pc[t] = "done" /\ op[t] \in ChannelCalls /\ ret[t] = "ok"
          /\ \E r \in pre[t].channels :
                /\ r.channel_id = qry[t].arg[1]
                /\ r.name = << "n2" >>
                /\ qry[t].arg[3] = << >>
    /\ Cardinality(db.channels) = 2

\* C20: messages is append-only: no step of the store removes or changes a
\* messages row; a create_message (of either store) that returns ok adds
\* exactly one row, under an id no stored message has, and returns that id;
\* every other step leaves the table as it was.
CreatedMessage(t) ==
    /\ pc[t] # "done" /\ pc'[t] = "done"
    /\ op'[t] \in {"create_message", "kb_create_message"}
    /\ ret'[t] = "ok"
C20_MessagesAppendOnly ==
    [][/\ db.messages \subseteq db'.messages
       /\ \A t \in DOMAIN pc :
             CreatedMessage(t) =>
                \E m \in db'.messages :
                    /\ db'.messages = db.messages \cup {m}
                    /\ \A x \in db.messages : x.id # m.id
                    /\ op'[t] = "create_message" => out'[t] = << m.id >>
       /\ (\A t \in DOMAIN pc : ~CreatedMessage(t)) => db'.messages = db.messages]_vars

\* A second message has been created in the channel of the first.
C20_Witness ==
    \E t \in DOMAIN pc :
        /\ Done(t, "create_message") /\ ret[t] = "ok"
        /\ \E x \in pre[t].messages : x.channel_id = qry[t].arg[1]
        /\ Cardinality(db.messages) = Cardinality(pre[t].messages) + 1

\* C21: a read that finds nothing returns ok with an empty result, never an
\* error or a panic.  Here for the channel reads of SqliteStore on the tables
\* SqliteStore created: get_channel of an id no row has returns None,
\* get_channels_by_source returns an empty list when no row matches.
NoChannelMatches(t) ==
    IF op[t] = "get_channel" THEN \A r \in db.channels : r.id # qry[t].arg[1]
    ELSE \A r \in db.channels : "source" \in DOMAIN r => r.source # qry[t].arg[1]
C21_MissIsEmptyNotError ==
    \A t \in DOMAIN pc :
        (/\ pc[t] = "done" /\ op[t] \in {"get_channel", "get_channels_by_source"}
         /\ db.schema = "SqliteStore"
         /\ NoChannelMatches(t))
        => ret[t] = "ok" /\ out[t] = << >>

\* C22: every read path over messages reads back the rows create_message
\* wrote: it returns ok, never an error or a panic on the stored timestamp
\* text, each returned message carries the instant its row was created at,
\* and get_messages_by_channel returns every row of the channel.
MessageReads ==
    {"get_message", "get_recent_messages", "get_messages_by_channel",
     "get_conversation_between_users"}
C22_StoredTimestampsReadBack ==
    \A t \in DOMAIN pc :
        (pc[t] = "done" /\ op[t] \in MessageReads) =>
            /\ ret[t] = "ok"
            /\ \A i \in 1..Len(out[t]) :
                  \E m \in db.messages :
                      m.id = out[t][i].id /\ out[t][i].created_at = m.created_at
            /\ op[t] = "get_messages_by_channel" =>
                  Len(out[t]) = Cardinality({m \in db.messages : m.channel_id = qry[t].arg[1]})

Abs(x) == IF x < 0 THEN -x ELSE x
\* x rounds to a finite f32: it lies below f32::MAX plus half an ulp.
InF32Range(x) == x < 2 * F32Max + 1
RoundTripped(t) == pc[t] = "done" /\ op[t] = "round_trip"

\* C23: for any vector v of finite values, decoding the encoded form of v
\* yields a vector of the same length whose i-th element is v[i] narrowed to
\* single precision and widened back, equal to v[i] within single-precision
\* rounding error (half an ulp), in the same order.
C23_RoundTripWithinRounding ==
    \A t \in Tasks :
        RoundTripped(t) =>
            /\ ret[t] = "ok"
            /\ Len(out[t]) = Len(CodecInput(t))
            /\ \A i \in 1..Len(out[t]) :
                   /\ out[t][i] = AsF64(AsF32(CodecInput(t)[i]))
                   /\ Abs(out[t][i] - CodecInput(t)[i]) <= 1
\* C23 as the code has it: same length, same order, each element narrowed
\* and widened back; within half an ulp of v[i] when v[i] rounds to a finite
\* f32, and infinite when v[i] is finite but beyond the single-precision
\* range.
C23_RoundTripInSinglePrecisionRange ==
    \A t \in Tasks :
        RoundTripped(t) =>
            /\ ret[t] = "ok"
            /\ Len(out[t]) = Len(CodecInput(t))
            /\ \A i \in 1..Len(out[t]) :
                   /\ out[t][i] = AsF64(AsF32(CodecInput(t)[i]))
                   /\ InF32Range(CodecInput(t)[i]) => Abs(out[t][i] - CodecInput(t)[i]) <= 1
                   /\ ~InF32Range(CodecInput(t)[i]) => out[t][i] = F64Inf
\* a round trip of a vector of two different elements, the first not
\* representable in single precision (it is rounded), the second exactly
\* representable
C23_Witness ==
    \E t \in Tasks :
        /\ RoundTripped(t)
        /\ Len(CodecInput(t)) = 2
        /\ CodecInput(t)[1] = 1
        /\ CodecInput(t)[2] = 4
        /\ out[t] = << 0, 4 >>

\* C24: decoding a stored blob whose byte length is not a multiple of 4
\* returns a codec error to the caller: no panic, no truncated or padded
\* vector.
C24_BadLengthIsCodecError ==
    \A t \in Tasks :
        (pc[t] = "done" /\ Len(qry[t].vec) % 4 # 0) =>
            ret[t] = "codec" /\ out[t] = << >>

OtherDimension(documents) ==
    \E i \in 1..Len(documents) :
        \E j \in 1..Len(documents[i].embeddings) : Len(documents[i].embeddings[j]) # Dim

\* C25: in every reachable state every vector stored in the index has
\* exactly Dim components (4 * Dim bytes), and an add one of whose embeddings
\* has another dimension has failed and left the documents table and the
\* vector index as they were when it started.
C25_StoredVectorsHaveDimensionD ==
    /\ \A e \in db.embeddings : Len(e.embedding) = 4 * Dim /\ Len(Decode(e.embedding)) = Dim
    /\ \A t \in Tasks :
          (/\ pc[t] = "done"
           /\ op[t] \in {"add_documents", "kb_add_documents"}
           /\ OtherDimension(docs[t]))
          => /\ ret[t] # "ok"
             /\ db.documents = pre[t].documents
             /\ db.embeddings = pre[t].embeddings
\* an add of two documents into a store that holds a document and its
\* vector: the first document and its vector are written, the vector of the
\* second has one component too many, the add fails on it
C25_Witness ==
    \E t \in Tasks :
        /\ pc[t] = "done" /\ op[t] = "add_documents" /\ ret[t] = "dimension"
        /\ Len(docs[t]) = 2
        /\ ~OtherDimension(<< docs[t][1] >>) /\ Len(docs[t][1].embeddings) = 1
        /\ OtherDimension(<< docs[t][2] >>)
        /\ pre[t].documents # {} /\ pre[t].embeddings # {}

RecentCalls == {"get_recent_messages", "kb_get_recent_messages"}
InChannel(c) == {m \in db.messages : m.channel_id = c}

\* C26: the list get_recent_messages(channel_id, limit) returns has at most
\* limit messages, all of them messages of the given channel, ordered from
\* newest to oldest by creation time, and no message of the channel that is
\* left out is newer than a returned one.
C26_RecentMessagesNewestFirst ==
    \A t \in Tasks :
        (pc[t] = "done" /\ op[t] \in RecentCalls /\ ret[t] = "ok") =>
            LET channel_id == qry[t].arg[1]
                limit == qry[t].arg[2]
                ids == {out[t][i].id : i \in 1..Len(out[t])}
            IN  /\ Len(out[t]) <= limit
                /\ \A i \in 1..Len(out[t]) :
                       /\ out[t][i].channel_id = channel_id
                       /\ \E m \in InChannel(channel_id) :
                              m.id = out[t][i].id /\ m.created_at = out[t][i].created_at
                /\ \A i, j \in 1..Len(out[t]) :
                       i < j => out[t][i].created_at >= out[t][j].created_at
                /\ \A m \in InChannel(channel_id) :
                       m.id \notin ids =>
                           \A i \in 1..Len(out[t]) : m.created_at <= out[t][i].created_at
\* a channel holding an older and a newer message, asked for its one most
\* recent message: the newer one is returned, the older one left out
C26_Witness ==
    \E t \in Tasks :
        /\ pc[t] = "done" /\ op[t] = "get_recent_messages" /\ ret[t] = "ok"
        /\ qry[t].arg[2] = 1 /\ Len(out[t]) = 1
        /\ \E m \in InChannel(qry[t].arg[1]) :
               m.id # out[t][1].id /\ m.created_at < out[t][1].created_at

\* m is written by account `from` in reply to a message of account `to`
RepliesTo(m, from, to) ==
    /\ m.account_id = from
    /\ m.reply_to_id # << >>
    /\ \E o \in db.messages : o.id = m.reply_to_id[1] /\ o.account_id = to

\* C27: the list get_conversation_between_users(a, b, since, limit) returns
\* has at most limit messages, each created strictly after since, in
\* ascending creation order, and each one is authored by one of the two
\* accounts in reply to a message of the other; what a wrote to third
\* parties is not in it.
C27_ConversationIsBetweenTheTwo ==
    \A t \in Tasks :
        (pc[t] = "done" /\ op[t] = "get_conversation_between_users" /\ ret[t] = "ok") =>
            LET a == qry[t].arg[1]
                b == qry[t].arg[2]
                since == qry[t].arg[3]
                limit == qry[t].arg[4]
            IN  /\ Len(out[t]) <= limit
                /\ \A i \in 1..Len(out[t]) : out[t][i].created_at > since
                /\ \A i, j \in 1..Len(out[t]) :
                       i < j => out[t][i].created_at <= out[t][j].created_at
                /\ \A i \in 1..Len(out[t]) :
                       RepliesTo(out[t][i], a, b) \/ RepliesTo(out[t][i], b, a)

AddCalls == {"add_documents", "kb_add_documents"}

\* C28: the ids given to documents rows only grow and are never given
\* twice, also when a row is replaced: every step leaves the counter at
\* least where it was, every row a step adds has an id above the counter
\* and above the rowid of every vector row written before, and an add is
\* refused by the vector table as a duplicate rowid only when one of its own
\* documents carries several embeddings.
C28_RowIdsIncreaseNeverReused ==
    [][/\ db'.seq >= db.seq
       /\ \A r \in db'.documents \ db.documents :
             /\ r.id > db.seq
             /\ \A o \in db.documents : r.id > o.id
             /\ \A e \in db.embeddings : r.id > e.rowid
       /\ \A t \in Tasks :
             (pc[t] # "done" /\ pc'[t] = "done" /\ op'[t] \in AddCalls /\ ret'[t] = "unique")
             => \E i \in 1..Len(docs'[t]) : Len(docs'[t][i].embeddings) >= 2
      ]_vars
\* a committed re-add of a document whose earlier row had a vector: the new
\* row has an id above the counter at the start of the call, and the vector
\* row of the replaced row is still in the index
C28_Witness ==
    \E t \in Tasks :
        /\ pc[t] = "done" /\ op[t] = "add_documents" /\ ret[t] = "ok"
        /\ \E o \in pre[t].documents : \E r \in db.documents :
              /\ o.doc_id = r.doc_id
              /\ r.id > pre[t].seq
              /\ \E e \in pre[t].embeddings : e.rowid = o.id
              /\ \E e \in db.embeddings : e.rowid = o.id
              /\ \E e \in db.embeddings : e.rowid = r.id

\* no transaction is open on the connection
Quiet == \A u \in Callers : pc[u] # "txn"
RowsOf(id) == {r \in db.documents : r.doc_id = id}
\* the one row of doc_id `id` holds `document`, and the vector row keyed by
\* its id is the encoding of `vec`
StoredAs(id, document, vec) ==
    \E r \in RowsOf(id) :
        /\ r.document = document
        /\ \E e \in db.embeddings : e.rowid = r.id
        /\ \A e \in db.embeddings : e.rowid = r.id => e.embedding = Encode(vec)

\* C29: under every interleaving of the add_documents calls of two callers,
\* whenever no transaction is open each doc_id has at most one documents
\* row, and once an add of it has committed exactly one, whose content and
\* whose vector row are those of the add that committed last; in particular
\* when both callers have completed an add of the same doc_id, the row and
\* its vector both come from one of the two calls.
C29_ConcurrentAddsOneRowOneCall ==
    Quiet =>
        /\ \A id \in DocIds :
              /\ Cardinality(RowsOf(id)) <= 1
              /\ latest[id] # << >> =>
                    StoredAs(id, latest[id][1].document, latest[id][1].embeddings[1])
        /\ (/\ \A t \in Callers : pc[t] = "done" /\ op[t] \in AddCalls /\ ret[t] = "ok"
            /\ docs["t1"][1].id = docs["t2"][1].id)
           => /\ Cardinality(RowsOf(docs["t1"][1].id)) = 1
              /\ \E t \in Callers :
                    StoredAs(docs[t][1].id, docs[t][1].document, docs[t][1].embeddings[1])
\* both callers have completed an add of the same doc_id, with different
\* contents and different vectors, one through SqliteStore and one through
\* KnowledgeBase, and both have committed
C29_Witness ==
    /\ \A t \in Callers : pc[t] = "done" /\ ret[t] = "ok"
    /\ op["t1"] = "add_documents" /\ op["t2"] = "kb_add_documents"
    /\ docs["t1"][1].id = docs["t2"][1].id
    /\ docs["t1"][1].document # docs["t2"][1].document
    /\ docs["t1"][1].embeddings # docs["t2"][1].embeddings
    /\ Len(latest[docs["t1"][1].id]) = 2

ReadCalls ==
    {"top_n", "top_n_ids", "get_document", "get_document_embeddings",
     "get_document_by_query", "get_message", "get_recent_messages"}
\* every relational table with its counter, and the vector index
Tables(d) ==
    << d.documents, d.seq, d.accounts, d.channels, d.cseq, d.messages, d.mseq,
       d.embeddings >>
\* this step is a step of a read call of t
ReadStep(t) ==
    /\ pc[t] # "done"
    /\ op'[t] \in ReadCalls
    /\ << pc[t], qry[t], rows[t], out[t], ret[t] >> # << pc'[t], qry'[t], rows'[t], out'[t], ret'[t] >>

\* C30: every step of top_n, top_n_ids, get_document,
\* get_document_embeddings, get_document_by_query, get_message and
\* get_recent_messages leaves every relational table and the vector index as
\* they were, and when the call returns (a result, a miss or an error) they
\* are as they were when it started.
C30_ReadsLeaveTablesUnchanged ==
    [][\A t \in Tasks :
          ReadStep(t) =>
             /\ Tables(db') = Tables(db)
             /\ pc'[t] = "done" => Tables(db') = Tables(pre'[t])
      ]_vars
\* get_document_by_query has returned a document with its embedding from a
\* store that holds documents, vectors and messages
C30_Witness ==
    \E t \in Tasks :
        /\ pc[t] = "done" /\ op[t] = "get_document_by_query" /\ ret[t] = "ok"
        /\ out[t] # << >> /\ out[t][1].embeddings # << >>
        /\ db.messages # {} /\ db.embeddings # {}
        /\ Tables(db) = Tables(pre[t])

\* what top_n_ids makes of the rows of the query
IdsOfRows(r) == [i \in 1..Len(r) |-> [distance |-> r[i].distance, id |-> r[i].doc_id]]
\* top_n's result with the record component removed
WithoutRecord(o) == [i \in 1..Len(o) |-> [distance |-> o[i].distance, id |-> o[i].id]]

\* C31: when no other operation ran between the steps of top_n (the store
\* is as it was when the call started), the (distance, id) pairs top_n
\* returns, in their order, are exactly what top_n_ids returns for the same
\* query and n on that store: the rows of the one SELECT both run, none
\* dropped, none added, none moved.
C31_TopNIdsIsTopNWithoutRecord ==
    \A t \in Tasks :
        (pc[t] = "done" /\ op[t] = "top_n" /\ ret[t] = "ok" /\ db = pre[t]) =>
            /\ rows[t] \in KnnRows(db, qry[t].vec, qry[t].n)
            /\ WithoutRecord(out[t]) = IdsOfRows(rows[t])
\* top_n has returned two hits at different distances from a store nobody
\* touched meanwhile, which also holds a vector row without a document
C31_Witness ==
    \E t \in Tasks :
        /\ pc[t] = "done" /\ op[t] = "top_n" /\ ret[t] = "ok" /\ db = pre[t]
        /\ Len(out[t]) = 2
        /\ out[t][1].distance < out[t][2].distance
        /\ \E e \in db.embeddings : \A r \in db.documents : r.id # e.rowid
====
